---- MODULE Spec2Model ----
(***************************************************************************)
(* pandakota: the DAKOTA input-deck builder (pandakota/input), the Study   *)
(* that runs a deck (pandakota/study.py) and the Driver processes that     *)
(* share a log file (pandakota/driver/driver.py).                          *)
(*                                                                         *)
(* Python objects are records.  A str that the code scans character by     *)
(* character (a variable key) is a sequence of one-character strings; text *)
(* that the code only concatenates and measures is a string.  A float that *)
(* is printed is a decimal [neg, digits, decpt] (value = 0.d1d2... *       *)
(* 10^decpt), printed by repr's rules.  A float that is computed with (the *)
(* bounds and the midpoint of a uniform variable) is a dyadic number coded *)
(* by twice its value, so that 0.5 * (a + b) is exact.                     *)
(***************************************************************************)
EXTENDS Integers, Sequences, FiniteSets, TLC

VARIABLES
    all_variable_keys,  \* Deck._all_variable_keys
    typed_variables,    \* Deck._typed_variables: class -> ordered dict
    method,             \* Deck._method / the Method object
    gradients,          \* Deck._gradients
    hessians,           \* Deck._hessians
    functions,          \* Deck._functions
    uuv,                \* a UniformUncertainVariable object
    sv,                 \* a Variable object whose element is assigned
    study,              \* a Study object and the files and commands of its runs
    logfile,            \* the communal log file of the drivers
    lock,               \* the holder of the flock on the communal log file
    drivers,            \* the Driver processes: position, stream, file buffer
    ret                 \* outcome of the last call

vars == <<all_variable_keys, typed_variables, method, gradients, hessians,
          functions, uuv, sv, study, logfile, lock, drivers, ret>>

osVars == <<study, logfile, lock, drivers>>

deckVars == <<all_variable_keys, typed_variables, gradients, hessians, functions>>

-----------------------------------------------------------------------------
(* Python values *)

None == [type |-> "NoneType"]

PyInt(n) == [type |-> "int", i |-> n]

PyBool(b) == [type |-> "bool", b |-> b]

PyStr(cs) == [type |-> "str", s |-> cs]

PyFloat(neg, digits, decpt) ==
    [type |-> "float", neg |-> neg, digits |-> digits, decpt |-> decpt]

PyList(items) == [type |-> "list", items |-> items]

\* isinstance(e, dtype) for the builtin types: bool is a subclass of int
IsInstance(e, dtype) ==
    \/ e.type = dtype
    \/ e.type = "bool" /\ dtype = "int"

\* the number an int (or a bool, which is an int) stands for
IntVal(x) == IF x.type = "bool" THEN (IF x.b THEN 1 ELSE 0) ELSE x.i

-----------------------------------------------------------------------------
(* str operations *)

\* "".join(cs)
RECURSIVE Str(_)
Str(cs) == IF cs = <<>> THEN "" ELSE Head(cs) \o Str(Tail(cs))

RECURSIVE Spaces(_)
Spaces(n) == IF n <= 0 THEN "" ELSE " " \o Spaces(n - 1)

\* s.ljust(width)
Ljust(s, width) == s \o Spaces(width - Len(s))

\* c in s, for a one-character c
Contains(cs, c) == \E i \in 1..Len(cs) : cs[i] = c

\* sep.join(parts)
RECURSIVE Join(_, _)
Join(sep, parts) ==
    IF parts = <<>> THEN ""
    ELSE IF Len(parts) = 1 THEN parts[1]
    ELSE parts[1] \o sep \o Join(sep, Tail(parts))

Max(a, b) == IF a >= b THEN a ELSE b

RECURSIVE MaxOf(_)
MaxOf(ns) == IF Len(ns) = 1 THEN ns[1] ELSE Max(ns[1], MaxOf(Tail(ns)))

RECURSIVE Zeros(_)
Zeros(n) == IF n <= 0 THEN "" ELSE "0" \o Zeros(n - 1)

\* repr(float): shortest digits, fixed notation when -4 < decpt <= 16,
\* else exponent notation with at least two exponent digits
FloatRepr(f) ==
    LET n    == Len(f.digits)
        sign == IF f.neg THEN "-" ELSE ""
        e    == f.decpt - 1
        ee   == IF e < 0 THEN -e ELSE e
        exps == (IF e < 0 THEN "-" ELSE "+") \o
                (IF ee < 10 THEN "0" ELSE "") \o ToString(ee)
        body ==
            IF f.decpt > -4 /\ f.decpt <= 16
            THEN IF f.decpt <= 0
                 THEN "0." \o Zeros(-f.decpt) \o Str(f.digits)
                 ELSE IF f.decpt >= n
                      THEN Str(f.digits) \o Zeros(f.decpt - n) \o ".0"
                      ELSE Str(SubSeq(f.digits, 1, f.decpt)) \o "." \o
                           Str(SubSeq(f.digits, f.decpt + 1, n))
            ELSE Head(f.digits) \o
                 (IF n > 1 THEN "." \o Str(Tail(f.digits)) ELSE "") \o
                 "e" \o exps
    IN sign \o body

\* str(x) as an f-string formats it
PyFormat(x) ==
    CASE x.type = "NoneType" -> "None"
      [] x.type = "int"      -> ToString(x.i)
      [] x.type = "bool"     -> IF x.b THEN "True" ELSE "False"
      [] x.type = "str"      -> Str(x.s)
      [] x.type = "float"    -> FloatRepr(x)

-----------------------------------------------------------------------------
(* A str kept as its right-stripped body and the number of spaces that     *)
(* trail it, so that ljust, + and rstrip are exact on the lines the deck   *)
(* builds (their trailing whitespace is always spaces).                    *)

TS(body, trail) == [body |-> body, trail |-> trail]

TSLen(t) == Len(t.body) + t.trail

\* a + b
TSCat(a, b) ==
    IF b.body = "" THEN TS(a.body, a.trail + b.trail)
    ELSE TS(a.body \o Spaces(a.trail) \o b.body, b.trail)

\* t.ljust(width)
TSLjust(t, width) == TS(t.body, t.trail + Max(0, width - TSLen(t)))

\* t.rstrip()
TSRstrip(t) == t.body

-----------------------------------------------------------------------------
(* pandakota/input/variables.py *)

StateVariableCls == "StateVariable"
NormalUncertainVariableCls == "NormalUncertainVariable"
UniformUncertainVariableCls == "UniformUncertainVariable"
DesignVariableCls == "DesignVariable"

TYPED_VARIABLES ==
    <<StateVariableCls, NormalUncertainVariableCls, UniformUncertainVariableCls>>

TypedClasses == {TYPED_VARIABLES[i] : i \in 1..Len(TYPED_VARIABLES)}

\* the element setter without the isinstance check
ElementSet_Unchecked(var, e) ==
    [status |-> "ok", obj |-> [var EXCEPT !.element = e]]

\* Variable.element setter: the outcome and the object afterwards
ElementSet(var, e) ==
    IF ~IsInstance(e, var.dtype)
    THEN [status |-> "TypeError", obj |-> var]
    ELSE [status |-> "ok", obj |-> [var EXCEPT !.element = e]]

StateVariable(key, dtype, nominal) ==
    ElementSet([cls |-> StateVariableCls, key |-> key, dtype |-> dtype,
                element |-> None], nominal)

NormalUncertainVariable(key, mean, std_dev) ==
    LET r == ElementSet([cls |-> NormalUncertainVariableCls, key |-> key,
                         dtype |-> "float", element |-> None,
                         std_dev |-> None], mean)
    IN IF r.status = "ok"
       THEN [r EXCEPT !.obj = [r.obj EXCEPT !.std_dev = std_dev]]
       ELSE r

UniformUncertainVariable(key, lower, upper) ==
    [status |-> "ok",
     obj |-> [cls |-> UniformUncertainVariableCls, key |-> key,
              dtype |-> "float", element |-> None,
              lower |-> lower, upper |-> upper]]

\* a float coded by twice its value
Dy(n) == [type |-> "float", twice |-> n]

\* 0.5 * (a + b)
Midpoint(a, b) == Dy((a.twice + b.twice) \div 2)

\* twice the value of an int or of a float coded by Dy
Twice(x) == IF x.type = "int" THEN 2 * x.i ELSE x.twice

\* int(round(0.5 * (upper + lower))): halves are rounded to the even integer
RoundHalf(lower, upper) ==
    LET sum == lower.i + upper.i
        h   == sum \div 2
    IN IF sum % 2 = 0 THEN PyInt(h)
       ELSE IF h % 2 = 0 THEN PyInt(h) ELSE PyInt(h + 1)

\* the _element DesignVariable.__init__ computes
DefaultElement(dtype, lower, upper) ==
    CASE dtype = "float" -> Midpoint(upper, lower)
      [] dtype = "int" -> RoundHalf(lower, upper)
      [] OTHER -> lower

\* the initial setter keeping the point out of the lower bound
InitialSet_Strict(v, initial_point) ==
    IF Twice(v.lower) < Twice(initial_point)
       /\ Twice(initial_point) <= Twice(v.upper)
    THEN [status |-> "ok", obj |-> [v EXCEPT !.initial = initial_point]]
    ELSE [status |-> "AssertionError", obj |-> v]

\* DesignVariable.initial setter
InitialSet(v, initial_point) ==
    IF Twice(v.lower) <= Twice(initial_point)
       /\ Twice(initial_point) <= Twice(v.upper)
    THEN [status |-> "ok", obj |-> [v EXCEPT !.initial = initial_point]]
    ELSE [status |-> "AssertionError", obj |-> v]

\* DesignVariable.__init__
DesignVariableInit(key, lower, upper, dtype, initial) ==
    LET e == DefaultElement(dtype, lower, upper)
        v == [cls |-> DesignVariableCls, key |-> key, dtype |-> dtype,
              element |-> e, lower |-> lower, upper |-> upper,
              initial |-> None]
    IN InitialSet(v, IF initial = None THEN e ELSE initial)

\* DesignVariable(key, lower, upper, float): no initial point given
DesignVariable(key, lower, upper) ==
    DesignVariableInit(key, lower, upper, "float", None)

\* s.replace(' ', '"') on the characters of s
Replace(cs) == [i \in 1..Len(cs) |-> IF cs[i] = " " THEN "\"" ELSE cs[i]]

Quoted(key) == TS("\"" \o Str(key) \o "\"", 0)

\* f' {x} '
Spaced(x) == TS(" " \o PyFormat(x), 1)

\* _get_strings: the ordered dict as a sequence of <<property, string>>
GetStrings(var) ==
    CASE var.cls = StateVariableCls ->
           << <<"descriptors", Quoted(var.key)>>,
              <<"elements",
                IF var.dtype = "str"
                THEN TS(Str(Replace(<<" ">> \o var.element.s \o <<" ">>)), 0)
                ELSE Spaced(var.element)>> >>
      [] var.cls = NormalUncertainVariableCls ->
           << <<"descriptors", Quoted(var.key)>>,
              <<"means", Spaced(var.element)>>,
              <<"std_deviations", Spaced(var.std_dev)>> >>
      [] var.cls = UniformUncertainVariableCls ->
           << <<"descriptors", Quoted(var.key)>>,
              <<"lower_bounds", Spaced(var.lower)>>,
              <<"upper_bounds", Spaced(var.upper)>> >>

\* Variable.justify
Justify(var) ==
    LET strings == GetStrings(var)
        length  == 2 + MaxOf([i \in 1..Len(strings) |-> TSLen(strings[i][2])])
    IN [i \in 1..Len(strings) |->
          <<strings[i][1], TSLjust(strings[i][2], length)>>]

-----------------------------------------------------------------------------
(* pandakota/input/deck.py: the registry *)

\* d[key] = var on an insertion-ordered dict kept as a sequence of values
DictSet(d, var) ==
    IF \E i \in 1..Len(d) : d[i].key = var.key
    THEN [i \in 1..Len(d) |-> IF d[i].key = var.key THEN var ELSE d[i]]
    ELSE Append(d, var)

DictKeys(d) == {d[i].key : i \in 1..Len(d)}

ForbiddenChars == <<" ", "\"", "'", ",">>

\* _validate_descriptor without the uniqueness assertion
ValidateDescriptor_NoUniqueness(keys, descriptor) ==
    IF \E i \in 1..Len(ForbiddenChars) : Contains(descriptor, ForbiddenChars[i])
    THEN "AssertionError"
    ELSE "ok"

\* Deck._validate_descriptor: the error it raises, or "ok"
ValidateDescriptor(keys, descriptor) ==
    LET forbidden_chars ==
            SelectSeq(ForbiddenChars, LAMBDA c : Contains(descriptor, c))
    IN IF forbidden_chars # <<>> THEN "AssertionError"
       ELSE IF descriptor \in keys THEN "AssertionError"
       ELSE "ok"

\* Deck.__getitem__ through the ChainMap: the first mapping holding the key
RECURSIVE ChainLookup(_, _, _)
ChainLookup(tv, key, i) ==
    IF i > Len(TYPED_VARIABLES) THEN [status |-> "KeyError", obj |-> None]
    ELSE LET d == tv[TYPED_VARIABLES[i]]
         IN IF key \in DictKeys(d)
            THEN [status |-> "ok",
                  obj |-> d[CHOOSE j \in 1..Len(d) : d[j].key = key]]
            ELSE ChainLookup(tv, key, i + 1)

GetItem(tv, key) == ChainLookup(tv, key, 1)

\* Deck.add_variable: the registry and the outcome after the call
AddVariableResult(keys, tv, var) ==
    LET v == ValidateDescriptor(keys, var.key)
    IN IF v # "ok"
       THEN [status |-> v, keys |-> keys, tv |-> tv]
       ELSE IF var.cls \notin TypedClasses
            THEN [status |-> "KeyError", keys |-> keys \cup {var.key},
                  tv |-> tv]
            ELSE [status |-> "ok", keys |-> keys \cup {var.key},
                  tv |-> [tv EXCEPT ![var.cls] = DictSet(@, var)]]

-----------------------------------------------------------------------------
(* pandakota/input/methods.py *)

\* bool(x)
Truthy(x) ==
    CASE x.type = "NoneType" -> FALSE
      [] x.type = "int"      -> x.i # 0
      [] x.type = "bool"     -> x.b
      [] x.type = "str"      -> x.s # <<>>
      [] x.type = "float"    -> x.digits # <<"0">>
      [] x.type = "list"     -> x.items # <<>>

SamplingClasses == {"MonteCarloSampling", "LatinHypercubeSampling"}

OptppNewtonClasses ==
    {"OptppNewtonOptimize", "OptppQNewtonOptimize", "OptppGNewtonOptimize",
     "OptppFdNewtonOptimize"}

OptppClasses == OptppNewtonClasses \cup {"OptppCgOptimize"}

\* the class attribute requires_gradients
RequiresGradients(cls) ==
    cls \in {"OptppCgOptimize", "OptppNewtonOptimize", "OptppQNewtonOptimize",
             "OptppFdNewtonOptimize"}

\* the class attribute requires_hessians
RequiresHessians(cls) == cls = "OptppNewtonOptimize"

\* the class attribute sample_type
SampleType(cls) ==
    CASE cls = "MonteCarloSampling" -> "random"
      [] cls = "LatinHypercubeSampling" -> "lhs"

\* the class attribute optimize_type
OptimizeType(cls) ==
    CASE cls = "OptppCgOptimize" -> "optpp_cg"
      [] cls = "OptppPdsOptimize" -> "optpp_pds"
      [] cls = "NcsuDirectOptimize" -> "ncsu_direct"
      [] cls = "NlpqlSqpOptimize" -> "nlpql_sqp"
      [] cls = "SogaOptimize" -> "soga"
      [] cls = "MogaOptimize" -> "moga"
      [] cls = "ColinyCobylaOptimize" -> "coliny_cobyla"
      [] cls = "OptppNewtonOptimize" -> "optpp_newton"
      [] cls = "OptppQNewtonOptimize" -> "optpp_q_newton"
      [] cls = "OptppGNewtonOptimize" -> "optpp_g_newton"
      [] cls = "OptppFdNewtonOptimize" -> "optpp_fd_newton"

\* Sampling.__init__ through MonteCarloSampling / LatinHypercubeSampling
Sampling(cls, nsamples, seed) ==
    IF ~(IsInstance(nsamples, "int") /\ IntVal(nsamples) > 0)
          \/ ~IsInstance(seed, "int")
    THEN [status |-> "AssertionError", obj |-> None]
    ELSE [status |-> "ok",
          obj |-> [cls |-> cls, id_method |-> "UQ", refinements |-> <<>>,
                   nsamples |-> nsamples, seed |-> seed]]

\* Optimize.__init__ through the OPT++ classes, optional arguments defaulted
Optpp(cls, max_iterations, max_function_evaluations, convergence_tolerance) ==
    IF /\ max_function_evaluations # None
       /\ max_iterations # None
       /\ ~(max_function_evaluations.i > max_iterations.i)
    THEN [status |-> "AssertionError", obj |-> None]
    ELSE [status |-> "ok",
          obj |-> [cls |-> cls, id_method |-> "Optimize", refinements |-> <<>>,
                   max_iterations |-> max_iterations,
                   max_function_evaluations |-> max_function_evaluations,
                   convergence_tolerance |-> convergence_tolerance,
                   max_step |-> None, gradient_tolerance |-> None,
                   speculative |-> PyBool(FALSE), merit_function |-> None,
                   search_method |-> None, centering_parameter |-> None,
                   steplength_to_boundary |-> None]]

\* Method.add_refinement
MethodAddRefinement(m, refinement_samples) ==
    [status |-> "ok",
     obj |-> [m EXCEPT !.refinements = Append(@, refinement_samples)]]

\* add_refinement accepting any explicit value
LhsAddRefinement_Unchecked(m, refinement_samples) ==
    LET allowed == IF m.refinements = <<>> THEN m.nsamples
                   ELSE PyInt(2 * m.refinements[Len(m.refinements)].i)
        samples == IF refinement_samples = None THEN allowed
                   ELSE refinement_samples
    IN MethodAddRefinement(m, samples)

\* LatinHypercubeSampling.add_refinement
LhsAddRefinement(m, refinement_samples) ==
    LET allowed == IF m.refinements = <<>> THEN m.nsamples
                   ELSE PyInt(2 * m.refinements[Len(m.refinements)].i)
        samples == IF refinement_samples = None THEN allowed
                   ELSE refinement_samples
    IN IF samples # allowed
       THEN [status |-> "ValueError", obj |-> m]
       ELSE MethodAddRefinement(m, samples)

\* Method.to_string
MethodToString(m) == "method" \o "\n\tid_method = \"" \o m.id_method \o "\""

\* Sampling.to_string with the refinement line always present
SamplingToString_AlwaysRefined(m) ==
    MethodToString(m)
    \o "\n\tsampling"
    \o "\n\t\tsample_type = " \o SampleType(m.cls)
    \o "\n\t\tseed = " \o PyFormat(m.seed)
    \o "\n\t\tsamples = " \o PyFormat(m.nsamples)
    \o "\n\t\t\trefinement_samples = " \o
       Join(" ", [i \in 1..Len(m.refinements) |-> PyFormat(m.refinements[i])])

\* Sampling.to_string
SamplingToString(m) ==
    MethodToString(m)
    \o "\n\tsampling"
    \o "\n\t\tsample_type = " \o SampleType(m.cls)
    \o "\n\t\tseed = " \o PyFormat(m.seed)
    \o "\n\t\tsamples = " \o PyFormat(m.nsamples)
    \o (IF m.refinements # <<>>
        THEN "\n\t\t\trefinement_samples = " \o
             Join(" ", [i \in 1..Len(m.refinements) |->
                           PyFormat(m.refinements[i])])
        ELSE "")

\* Optimize.to_string
OptimizeToString(m) ==
    MethodToString(m)
    \o "\n\t\t" \o OptimizeType(m.cls)
    \o "\n\t\t\tmax_iterations = " \o PyFormat(m.max_iterations)
    \o "\n\t\t\tmax_function_evaluations = " \o
       PyFormat(m.max_function_evaluations)
    \o "\n\t\t\tconvergence_tolerance = " \o PyFormat(m.convergence_tolerance)

\* the line "\n\t\t\t{var} = {val}" emitted under "if val:"
OptLine(var, val) ==
    IF Truthy(val) THEN "\n\t\t\t" \o var \o " = " \o PyFormat(val) ELSE ""

\* OptppOptimize.to_string writing its own text after the method header
OptppToString_Override(m) ==
    MethodToString(m)
    \o "\n\t\t" \o OptimizeType(m.cls)
    \o OptLine("max_step", m.max_step)
    \o OptLine("gradient_tolerance", m.gradient_tolerance)
    \o OptLine("merit_function", m.merit_function)
    \o (IF Truthy(m.speculative)
        THEN "\n\t\t\tspeculative  # Use speculative increments" ELSE "")

\* OptppOptimize.to_string
OptppToString(m) ==
    OptimizeToString(m)
    \o OptLine("max_step", m.max_step)
    \o OptLine("gradient_tolerance", m.gradient_tolerance)
    \o OptLine("merit_function", m.merit_function)
    \o (IF Truthy(m.speculative)
        THEN "\n\t\t\tspeculative  # Use speculative increments" ELSE "")

\* OptppNewtonOptimize.to_string
OptppNewtonToString(m) ==
    OptppToString(m)
    \o OptLine("search_method", m.search_method)
    \o OptLine("centering_parameter", m.centering_parameter)
    \o OptLine("steplength_to_boundary", m.steplength_to_boundary)

\* the letters str.lower() maps
UpperChars ==
    <<"A", "B", "C", "D", "E", "F", "G", "H", "I", "J", "K", "L", "M",
      "N", "O", "P", "Q", "R", "S", "T", "U", "V", "W", "X", "Y", "Z">>
LowerChars ==
    <<"a", "b", "c", "d", "e", "f", "g", "h", "i", "j", "k", "l", "m",
      "n", "o", "p", "q", "r", "s", "t", "u", "v", "w", "x", "y", "z">>

LowerChar(c) ==
    IF \E i \in 1..26 : UpperChars[i] = c
    THEN LowerChars[CHOOSE i \in 1..26 : UpperChars[i] = c]
    ELSE c

\* s.lower()
Lower(cs) == [i \in 1..Len(cs) |-> LowerChar(cs[i])]

\* _check_input comparing the candidate as it was given
CheckInput_CaseSensitive(allowed, candidate, populated_prereqs) ==
    IF ~Truthy(candidate) THEN [status |-> "ok", value |-> candidate]
    ELSE IF candidate \notin allowed
         THEN [status |-> "AssertionError", value |-> None]
         ELSE IF \E i \in 1..Len(populated_prereqs) :
                    ~Truthy(populated_prereqs[i])
              THEN [status |-> "AssertionError", value |-> None]
              ELSE [status |-> "ok", value |-> candidate]

\* _check_input(attr, allowed, candidate, populated_prereqs=...), with
\* populated_prereqs given by the sequence of its values
CheckInput(allowed, candidate, populated_prereqs) ==
    IF ~Truthy(candidate) THEN [status |-> "ok", value |-> candidate]
    ELSE LET c == IF candidate.type = "str" THEN PyStr(Lower(candidate.s))
                  ELSE candidate
         IN IF c \notin allowed
            THEN [status |-> "AssertionError", value |-> None]
            ELSE IF \E i \in 1..Len(populated_prereqs) :
                       ~Truthy(populated_prereqs[i])
                 THEN [status |-> "AssertionError", value |-> None]
                 ELSE [status |-> "ok", value |-> c]

DigitChars == <<"0", "1", "2", "3", "4", "5", "6", "7", "8", "9">>

DigitVal(c) == (CHOOSE i \in 1..10 : DigitChars[i] = c) - 1

RECURSIVE DigitsVal(_)
DigitsVal(ds) ==
    IF ds = <<>> THEN 0
    ELSE 10 * DigitsVal(SubSeq(ds, 1, Len(ds) - 1)) + DigitVal(ds[Len(ds)])

RECURSIVE Pow10(_)
Pow10(n) == IF n <= 0 THEN 1 ELSE 10 * Pow10(n - 1)

\* a number as mantissa * 10^exponent
Mantissa(x) ==
    IF x.type = "float"
    THEN (IF x.neg THEN -1 ELSE 1) * DigitsVal(x.digits)
    ELSE IntVal(x)

Exponent(x) == IF x.type = "float" THEN x.decpt - Len(x.digits) ELSE 0

\* a < b and a <= b on ints and floats
NumLt(a, b) ==
    LET e == IF Exponent(a) < Exponent(b) THEN Exponent(a) ELSE Exponent(b)
    IN Mantissa(a) * Pow10(Exponent(a) - e) < Mantissa(b) * Pow10(Exponent(b) - e)

NumLe(a, b) == ~NumLt(b, a)

\* _check_numeric_input: the error message is formatted from locals(),
\* which holds no min_allowed, so str.format raises KeyError before the
\* ValueError is constructed
CheckNumericInput(candidate, lower, upper, allow_lower, allow_upper) ==
    IF ~NumLt(lower, upper) THEN [status |-> "AssertionError", value |-> None]
    ELSE IF candidate = None THEN [status |-> "ok", value |-> candidate]
    ELSE IF /\ (IF allow_lower THEN NumLe(lower, candidate)
                ELSE NumLt(lower, candidate))
            /\ (IF allow_upper THEN NumLe(candidate, upper)
                ELSE NumLt(candidate, upper))
         THEN [status |-> "ok", value |-> candidate]
         ELSE [status |-> "KeyError", value |-> None]

S_elitist == PyStr(<<"e", "l", "i", "t", "i", "s", "t">>)
S_roulette_wheel ==
    PyStr(<<"r", "o", "u", "l", "e", "t", "t", "e", "_", "w", "h", "e", "e",
            "l">>)
S_unique_roulette_wheel ==
    PyStr(<<"u", "n", "i", "q", "u", "e", "_", "r", "o", "u", "l", "e", "t",
            "t", "e", "_", "w", "h", "e", "e", "l">>)
S_favor_feasible ==
    PyStr(<<"f", "a", "v", "o", "r", "_", "f", "e", "a", "s", "i", "b", "l",
            "e">>)
S_below_limit ==
    PyStr(<<"b", "e", "l", "o", "w", "_", "l", "i", "m", "i", "t">>)
S_best_fitness_tracker ==
    PyStr(<<"b", "e", "s", "t", "_", "f", "i", "t", "n", "e", "s", "s", "_",
            "t", "r", "a", "c", "k", "e", "r">>)
S_average_fitness_tracker ==
    PyStr(<<"a", "v", "e", "r", "a", "g", "e", "_", "f", "i", "t", "n", "e",
            "s", "s", "_", "t", "r", "a", "c", "k", "e", "r">>)
S_metric_tracker ==
    PyStr(<<"m", "e", "t", "r", "i", "c", "_", "t", "r", "a", "c", "k", "e",
            "r">>)
S_percent_change ==
    PyStr(<<"p", "e", "r", "c", "e", "n", "t", "_", "c", "h", "a", "n", "g",
            "e">>)
S_num_generations ==
    PyStr(<<"n", "u", "m", "_", "g", "e", "n", "e", "r", "a", "t", "i", "o",
            "n", "s">>)
S_simple_random ==
    PyStr(<<"s", "i", "m", "p", "l", "e", "_", "r", "a", "n", "d", "o", "m">>)
S_unique_random ==
    PyStr(<<"u", "n", "i", "q", "u", "e", "_", "r", "a", "n", "d", "o", "m">>)
S_flat_file == PyStr(<<"f", "l", "a", "t", "_", "f", "i", "l", "e">>)
S_multi_point_binary ==
    PyStr(<<"m", "u", "l", "t", "i", "_", "p", "o", "i", "n", "t", "_", "b",
            "i", "n", "a", "r", "y">>)
S_multi_point_real ==
    PyStr(<<"m", "u", "l", "t", "i", "_", "p", "o", "i", "n", "t", "_", "r",
            "e", "a", "l">>)
S_multi_point_parameterized_binary ==
    PyStr(<<"m", "u", "l", "t", "i", "_", "p", "o", "i", "n", "t", "_", "p",
            "a", "r", "a", "m", "e", "t", "e", "r", "i", "z", "e", "d", "_",
            "b", "i", "n", "a", "r", "y">>)
S_shuffle_random ==
    PyStr(<<"s", "h", "u", "f", "f", "l", "e", "_", "r", "a", "n", "d", "o",
            "m">>)
S_replace_uniform ==
    PyStr(<<"r", "e", "p", "l", "a", "c", "e", "_", "u", "n", "i", "f", "o",
            "r", "m">>)
S_bit_random == PyStr(<<"b", "i", "t", "_", "r", "a", "n", "d", "o", "m">>)
S_offset_uniform ==
    PyStr(<<"o", "f", "f", "s", "e", "t", "_", "u", "n", "i", "f", "o", "r",
            "m">>)
S_offset_cauchy ==
    PyStr(<<"o", "f", "f", "s", "e", "t", "_", "c", "a", "u", "c", "h", "y">>)
S_offset_normal ==
    PyStr(<<"o", "f", "f", "s", "e", "t", "_", "n", "o", "r", "m", "a", "l">>)
S_el_bakry == PyStr(<<"e", "l", "_", "b", "a", "k", "r", "y">>)
S_argaez_tapia ==
    PyStr(<<"a", "r", "g", "a", "e", "z", "_", "t", "a", "p", "i", "a">>)
S_van_shanno == PyStr(<<"v", "a", "n", "_", "s", "h", "a", "n", "n", "o">>)
S_value_based_line_search ==
    PyStr(<<"v", "a", "l", "u", "e", "_", "b", "a", "s", "e", "d", "_", "l",
            "i", "n", "e", "_", "s", "e", "a", "r", "c", "h">>)
S_gradient_based_line_search ==
    PyStr(<<"g", "r", "a", "d", "i", "e", "n", "t", "_", "b", "a", "s", "e",
            "d", "_", "l", "i", "n", "e", "_", "s", "e", "a", "r", "c", "h">>)
S_trust_region ==
    PyStr(<<"t", "r", "u", "s", "t", "_", "r", "e", "g", "i", "o", "n">>)
S_tr_pds == PyStr(<<"t", "r", "_", "p", "d", "s">>)

JegaClasses == {"SogaOptimize", "MogaOptimize"}

\* the class attributes of JegaOptimize and their extensions
replacement_types(cls) ==
    {S_elitist, S_roulette_wheel, S_unique_roulette_wheel}
    \cup (IF cls = "SogaOptimize" THEN {S_favor_feasible} ELSE {})
    \cup (IF cls = "MogaOptimize" THEN {S_below_limit} ELSE {})

convergence_types(cls) ==
    (IF cls = "SogaOptimize"
     THEN {S_best_fitness_tracker, S_average_fitness_tracker} ELSE {})
    \cup (IF cls = "MogaOptimize"
          THEN {S_metric_tracker, S_percent_change, S_num_generations}
          ELSE {})

initialization_types == {S_simple_random, S_unique_random, S_flat_file}

crossover_types ==
    {S_multi_point_binary, S_multi_point_real,
     S_multi_point_parameterized_binary, S_shuffle_random}

mutation_types ==
    {S_replace_uniform, S_bit_random, S_offset_uniform, S_offset_cauchy,
     S_offset_normal}

merit_functions == {S_el_bakry, S_argaez_tapia, S_van_shanno}

search_methods ==
    {S_value_based_line_search, S_gradient_based_line_search,
     S_trust_region, S_tr_pds}

\* Optimize.__init__: the assertion on the two maxima
OptimizeRejects(a) ==
    /\ a.max_function_evaluations # None
    /\ a.max_iterations # None
    /\ ~(a.max_function_evaluations.i > a.max_iterations.i)

\* check_initialization_type without the prerequisite
CheckInitializationType_NoPrereq(it, flat_file_path) ==
    CheckInput(initialization_types, it, <<>>)

\* JegaOptimize.check_initialization_type
CheckInitializationType(it, flat_file_path) ==
    CheckInput(initialization_types, it,
               IF Truthy(it) /\ Lower(it.s) = S_flat_file.s
               THEN <<flat_file_path>> ELSE <<>>)

\* JegaOptimize.__init__ through SogaOptimize / MogaOptimize; a holds the
\* arguments
Jega(cls, a) ==
    LET rt  == CheckInput(replacement_types(cls), a.replacement_type, <<>>)
        ct  == CheckInput(convergence_types(cls), a.convergence_type, <<>>)
        it  == CheckInitializationType(a.initialization_type, a.flat_file_path)
        cot == CheckInput(crossover_types, a.crossover_type, <<>>)
        mt  == CheckInput(mutation_types, a.mutation_type, <<>>)
    IN IF OptimizeRejects(a) \/ ~IsInstance(a.seed, "int")
       THEN [status |-> "AssertionError", obj |-> None]
       ELSE IF rt.status # "ok" THEN [status |-> rt.status, obj |-> None]
       ELSE IF ct.status # "ok" THEN [status |-> ct.status, obj |-> None]
       ELSE IF it.status # "ok" THEN [status |-> it.status, obj |-> None]
       ELSE IF cot.status # "ok" THEN [status |-> cot.status, obj |-> None]
       ELSE IF /\ cot.value # S_shuffle_random
               /\ ~(a.num_parents = None /\ a.num_offspring = None)
            THEN [status |-> "AssertionError", obj |-> None]
       ELSE IF mt.status # "ok" THEN [status |-> mt.status, obj |-> None]
       ELSE IF cls = "MogaOptimize"
               /\ (a.niching_type # None \/ a.postprocessor_type # None)
            THEN [status |-> "NotImplementedError", obj |-> None]
       ELSE [status |-> "ok",
             obj |-> [cls |-> cls, id_method |-> "Optimize",
                      refinements |-> <<>>,
                      max_iterations |-> a.max_iterations,
                      max_function_evaluations |-> a.max_function_evaluations,
                      convergence_tolerance |-> a.convergence_tolerance,
                      population_size |-> a.population_size,
                      seed |-> a.seed,
                      flat_file_path |-> a.flat_file_path,
                      replacement_type |-> rt.value,
                      convergence_type |-> ct.value,
                      initialization_type |-> it.value,
                      crossover_type |-> cot.value,
                      crossover_rate |-> a.crossover_rate,
                      num_parents |-> a.num_parents,
                      num_offspring |-> a.num_offspring,
                      mutation_type |-> mt.value,
                      mutation_rate |-> a.mutation_rate]]

Zero == PyFloat(FALSE, <<"0">>, 1)
One == PyFloat(FALSE, <<"1">>, 1)

\* OptppNewtonOptimize.__init__ and its subclasses; a holds the arguments
OptppNewton(cls, a) ==
    LET mf == CheckInput(merit_functions, a.merit_function, <<>>)
        sm == CheckInput(search_methods, a.search_method, <<>>)
        cp == CheckNumericInput(a.centering_parameter, Zero, One, TRUE, TRUE)
        sb == CheckNumericInput(a.steplength_to_boundary, Zero, One,
                                FALSE, FALSE)
    IN IF OptimizeRejects(a) THEN [status |-> "AssertionError", obj |-> None]
       ELSE IF mf.status # "ok" THEN [status |-> mf.status, obj |-> None]
       ELSE IF sm.status # "ok" THEN [status |-> sm.status, obj |-> None]
       ELSE IF cp.status # "ok" THEN [status |-> cp.status, obj |-> None]
       ELSE IF sb.status # "ok" THEN [status |-> sb.status, obj |-> None]
       ELSE [status |-> "ok",
             obj |-> [cls |-> cls, id_method |-> "Optimize",
                      refinements |-> <<>>,
                      max_iterations |-> a.max_iterations,
                      max_function_evaluations |-> a.max_function_evaluations,
                      convergence_tolerance |-> a.convergence_tolerance,
                      max_step |-> a.max_step,
                      gradient_tolerance |-> a.gradient_tolerance,
                      speculative |-> a.speculative,
                      merit_function |-> mf.value,
                      search_method |-> sm.value,
                      centering_parameter |-> cp.value,
                      steplength_to_boundary |-> sb.value]]

\* ColinyCobylaOptimize.__init__; a holds the arguments
ColinyCobyla(a) ==
    LET vt == CheckNumericInput(a.variable_tolerance, Zero, One, FALSE, FALSE)
    IN IF OptimizeRejects(a) THEN [status |-> "AssertionError", obj |-> None]
       ELSE IF vt.status # "ok" THEN [status |-> vt.status, obj |-> None]
       ELSE [status |-> "ok",
             obj |-> [cls |-> "ColinyCobylaOptimize",
                      id_method |-> "Optimize", refinements |-> <<>>,
                      max_iterations |-> a.max_iterations,
                      max_function_evaluations |-> a.max_function_evaluations,
                      convergence_tolerance |-> a.convergence_tolerance,
                      initial_delta |-> a.initial_delta,
                      variable_tolerance |-> vt.value,
                      solution_target |-> a.solution_target]]

\* the lines JegaOptimize.to_string adds for one var of its loop
JegaLines(m, var, val, rate_var, rate_val) ==
    OptLine(var, val)
    \o (IF rate_val # None
        THEN "\n\t\t\t\t" \o rate_var \o " = " \o PyFormat(rate_val) ELSE "")
    \o (IF var = "crossover_type" /\ val = S_shuffle_random
        THEN (IF Truthy(m.num_parents)
              THEN "\n\t\t\t\tnum_parents = " \o PyFormat(m.num_parents)
              ELSE "")
             \o (IF Truthy(m.num_offspring)
                 THEN "\n\t\t\t\tnum_offspring = " \o PyFormat(m.num_offspring)
                 ELSE "")
        ELSE "")
    \o (IF var = "initialization_type" /\ val = S_flat_file
        THEN " " \o Str(m.flat_file_path.s) ELSE "")

\* JegaOptimize.to_string
JegaToString(m) ==
    OptimizeToString(m)
    \o JegaLines(m, "seed", m.seed, "", None)
    \o JegaLines(m, "population_size", m.population_size, "", None)
    \o JegaLines(m, "replacement_type", m.replacement_type, "", None)
    \o JegaLines(m, "convergence_type", m.convergence_type, "", None)
    \o JegaLines(m, "initialization_type", m.initialization_type, "", None)
    \o JegaLines(m, "crossover_type", m.crossover_type, "crossover_rate",
                 m.crossover_rate)
    \o JegaLines(m, "mutation_type", m.mutation_type, "mutation_rate",
                 m.mutation_rate)

\* ColinyCobylaOptimize.to_string
ColinyCobylaToString(m) ==
    OptimizeToString(m)
    \o OptLine("initial_delta", m.initial_delta)
    \o OptLine("variable_tolerance", m.variable_tolerance)
    \o OptLine("solution_target", m.solution_target)

\* NcsuDirectOptimize.to_string
NcsuDirectToString(m) ==
    OptimizeToString(m)
    \o OptLine("solution_target", m.solution_target)
    \o OptLine("min_boxsize_limit", m.min_boxsize_limit)
    \o OptLine("volume_boxsize_limit", m.volume_boxsize_limit)

\* OptppPdsOptimize.to_string
OptppPdsToString(m) ==
    OptppToString(m)
    \o OptLine("search_scheme_size", m.search_scheme_size)

\* method.to_string() dispatched on the class
to_string(m) ==
    CASE m.cls \in SamplingClasses -> SamplingToString(m)
      [] m.cls \in OptppNewtonClasses -> OptppNewtonToString(m)
      [] m.cls = "OptppCgOptimize" -> OptppToString(m)
      [] m.cls = "OptppPdsOptimize" -> OptppPdsToString(m)
      [] m.cls = "NcsuDirectOptimize" -> NcsuDirectToString(m)
      [] m.cls = "NlpqlSqpOptimize" -> OptimizeToString(m)
      [] m.cls \in JegaClasses -> JegaToString(m)
      [] m.cls = "ColinyCobylaOptimize" -> ColinyCobylaToString(m)

-----------------------------------------------------------------------------
(* pandakota/input/derivatives.py *)

Chars_no == <<"n", "o">>
Chars_numerical == <<"n", "u", "m", "e", "r", "i", "c", "a", "l">>
Chars_analytic == <<"a", "n", "a", "l", "y", "t", "i", "c">>
Chars_mixed == <<"m", "i", "x", "e", "d">>
Chars_quasi == <<"q", "u", "a", "s", "i">>

DERIVATIVE_NONE == PyStr(Chars_no)
DERIVATIVE_NUMERIC == PyStr(Chars_numerical)
DERIVATIVE_ANALYTIC == PyStr(Chars_analytic)
DERIVATIVE_MIXED == PyStr(Chars_mixed)
GRADIENT_TYPES ==
    {DERIVATIVE_NONE, DERIVATIVE_NUMERIC, DERIVATIVE_ANALYTIC, DERIVATIVE_MIXED}
HESSIAN_QUASI == PyStr(Chars_quasi)
HESSIAN_TYPES == {HESSIAN_QUASI} \cup GRADIENT_TYPES

SOURCE_DAKOTA == PyStr(<<"d", "a", "k", "o", "t", "a">>)
SOURCE_VENDOR == PyStr(<<"v", "e", "n", "d", "o", "r">>)
GRADIENT_SOURCES == {SOURCE_DAKOTA, SOURCE_VENDOR}
TYPE_CENTRAL == PyStr(<<"c", "e", "n", "t", "r", "a", "l">>)
TYPE_FORWARD == PyStr(<<"f", "o", "r", "w", "a", "r", "d">>)
INTERVAL_TYPES == {TYPE_CENTRAL, TYPE_FORWARD}
QUASI_BFGS == PyStr(<<"b", "f", "g", "s">>)
QUASI_SR1 == PyStr(<<"s", "r", "1">>)
HESSIAN_QUASI_APPROXIMATIONS == {QUASI_BFGS, QUASI_SR1}
SCALING_RELATIVE == PyStr(<<"r", "e", "l", "a", "t", "i", "v", "e">>)
SCALING_ABSOLUTE == PyStr(<<"a", "b", "s", "o", "l", "u", "t", "e">>)
SCALING_BOUNDS == PyStr(<<"b", "o", "u", "n", "d", "s">>)
HESSIAN_STEP_SCALINGS ==
    {SCALING_RELATIVE, SCALING_ABSOLUTE, SCALING_BOUNDS}

\* " ".join([str(x) for x in xs])
RECURSIVE JoinFormatted(_)
JoinFormatted(xs) ==
    IF xs = <<>> THEN ""
    ELSE PyFormat(Head(xs)) \o (IF Len(xs) > 1 THEN " " ELSE "")
         \o JoinFormatted(Tail(xs))

\* _format_id
FormatId(id_list, key) ==
    IF ~Truthy(id_list) THEN ""
    ELSE "\n\t\t" \o key \o " " \o JoinFormatted(id_list.items)

\* _format_fd_step_size
FormatFdStepSize(fd_list, key) ==
    IF ~Truthy(fd_list) THEN ""
    ELSE "\n\t\t" \o key \o " " \o JoinFormatted(fd_list.items)

\* Derivatives.__init__; the attributes of the subclasses start at None
Derivatives(key, derivative_type, fd_step_size, id_numerical, id_analytic) ==
    [key |-> key,
     derivative_type |-> IF derivative_type = DERIVATIVE_NONE THEN None
                         ELSE derivative_type,
     fd_step_size |-> fd_step_size,
     id_numerical |-> id_numerical,
     id_analytic |-> id_analytic,
     method_source |-> None, interval_type |-> None, step_scaling |-> None,
     id_quasi |-> None, quasi_approximation |-> None,
     damped |-> PyBool(FALSE)]

\* Gradients.__init__
GradientsInit(gradient_type, method_source, interval_type, fd_step_size, id_numerical, id_analytic) ==
    IF \/ gradient_type \notin {None} \cup GRADIENT_TYPES
       \/ method_source \notin {None} \cup GRADIENT_SOURCES
       \/ interval_type \notin {None} \cup INTERVAL_TYPES
    THEN [status |-> "AssertionError", obj |-> None]
    ELSE [status |-> "ok",
          obj |-> [Derivatives("gradients", gradient_type, fd_step_size,
                               id_numerical, id_analytic)
                     EXCEPT !.method_source = method_source,
                            !.interval_type = interval_type]]

\* Gradients(gradient_type): the optional arguments left at None
Gradients(gradient_type) ==
    GradientsInit(gradient_type, None, None, None, None, None)

\* Hessians.__init__
HessiansInit(hessian_type, interval_type, step_scaling, quasi_approximation, fd_step_size, id_numerical, id_analytic, id_quasi, damped) ==
    IF \/ hessian_type \notin {None} \cup HESSIAN_TYPES
       \/ interval_type \notin {None} \cup INTERVAL_TYPES
       \/ step_scaling \notin {None} \cup HESSIAN_STEP_SCALINGS
       \/ quasi_approximation \notin {None} \cup HESSIAN_QUASI_APPROXIMATIONS
       \/ IF hessian_type \in {HESSIAN_QUASI, DERIVATIVE_MIXED}
             /\ Truthy(id_quasi)
          THEN ~Truthy(quasi_approximation)
          ELSE Truthy(quasi_approximation)
       \/ Truthy(damped) /\ quasi_approximation # QUASI_BFGS
    THEN [status |-> "AssertionError", obj |-> None]
    ELSE [status |-> "ok",
          obj |-> [Derivatives("hessians", hessian_type, fd_step_size,
                               id_numerical, id_analytic)
                     EXCEPT !.interval_type = interval_type,
                            !.step_scaling = step_scaling,
                            !.id_quasi = id_quasi,
                            !.quasi_approximation = quasi_approximation,
                            !.damped = PyBool(Truthy(damped))]]

\* Hessians(hessian_type): the optional arguments left at None / False
Hessians(hessian_type) ==
    HessiansInit(hessian_type, None, None, None, None, None, None, None,
                 PyBool(FALSE))

\* Derivatives._no
No(d) == "\t" \o Str(DERIVATIVE_NONE.s) \o "_" \o d.key

\* Derivatives.to_string
DerivativesToString(d) ==
    IF ~Truthy(d.derivative_type) THEN No(d)
    ELSE "\n\t" \o PyFormat(d.derivative_type) \o "_" \o d.key
         \o FormatId(d.id_analytic, "id_analytic_" \o d.key)
         \o FormatId(d.id_numerical, "id_numerical_" \o d.key)

\* Gradients.to_string with the subsection lines under every type
GradientsToString_Always(d) ==
    DerivativesToString(d)
    \o (IF Truthy(d.method_source)
        THEN "\n\t\tmethod_source " \o PyFormat(d.method_source) ELSE "")
    \o (IF Truthy(d.interval_type)
        THEN "\n\t\tinterval_type " \o PyFormat(d.interval_type) ELSE "")
    \o FormatFdStepSize(d.fd_step_size, "fd_gradient_step_size")

\* Gradients.to_string
GradientsToString(d) ==
    IF ~Truthy(d.derivative_type) THEN No(d)
    ELSE DerivativesToString(d)
         \o (IF Truthy(d.method_source)
             THEN "\n\t\tmethod_source " \o PyFormat(d.method_source) ELSE "")
         \o (IF Truthy(d.interval_type)
             THEN "\n\t\tinterval_type " \o PyFormat(d.interval_type) ELSE "")
         \o FormatFdStepSize(d.fd_step_size, "fd_gradient_step_size")

\* Hessians.to_string: " " + self._quasi_approximation raises TypeError when
\* id_quasi is given and quasi_approximation is None
HessiansToString(d) ==
    IF ~Truthy(d.derivative_type) THEN [status |-> "ok", text |-> No(d)]
    ELSE IF Truthy(d.id_quasi) /\ d.quasi_approximation = None
    THEN [status |-> "TypeError", text |-> ""]
    ELSE [status |-> "ok",
          text |-> DerivativesToString(d)
                   \o (IF Truthy(d.id_quasi)
                       THEN FormatId(d.id_quasi, "id_quasi_" \o d.key) \o " "
                            \o Str(d.quasi_approximation.s)
                            \o (IF Truthy(d.damped) THEN " damped" ELSE "")
                       ELSE "")
                   \o (IF Truthy(d.step_scaling)
                       THEN "\n\t\t" \o PyFormat(d.step_scaling) ELSE "")
                   \o FormatFdStepSize(d.fd_step_size, "fd_hessian_step_size")]

\* str(d), dispatched on the class
DerivToString(d) ==
    IF d.key = "gradients"
    THEN [status |-> "ok", text |-> GradientsToString(d)]
    ELSE HessiansToString(d)

-----------------------------------------------------------------------------
(* pandakota/input/deck.py: the formatters *)

\* pandakota._version.__version__
version == "0.0.1"

\* names.files
files == [inp |-> "dak.in", out |-> "dak.out", tab |-> "dak.tab",
          parameters |-> "params.in", results |-> "results.out"]

\* VariableClass.block_name read on the class: StateVariable declares it as
\* a property, so the class attribute is the property object, whose repr
\* carries an address
BlockName(cls) ==
    CASE cls = StateVariableCls -> "<property object at 0x7f960a4fafc0>"
      [] cls = NormalUncertainVariableCls -> "normal_uncertain"
      [] cls = UniformUncertainVariableCls -> "uniform_uncertain"

\* proplines[prop] after the loop over the variables, right-stripped
RECURSIVE PropLine(_, _, _)
PropLine(line, these_variables, p) ==
    IF these_variables = <<>> THEN line
    ELSE PropLine(TSCat(line, Justify(Head(these_variables))[p][2]),
                  Tail(these_variables), p)

\* Deck._format_variable_type
FormatVariableType(tv, cls) ==
    LET these_variables == tv[cls]
        props == GetStrings(these_variables[1])
        lines == [p \in 1..Len(props) |->
                    TSRstrip(PropLine(TSLjust(TS(props[p][1], 0), 16),
                                      these_variables, p))]
        header == "\n\t" \o BlockName(cls) \o "  " \o
                  ToString(Len(these_variables))
        sep == "\n\t\t"
    IN IF these_variables = <<>> THEN ""
       ELSE header \o sep \o Join(sep, lines) \o "\n"

\* Deck._format_variables
RECURSIVE FormatVariablesFrom(_, _)
FormatVariablesFrom(tv, i) ==
    IF i > Len(TYPED_VARIABLES) THEN ""
    ELSE FormatVariableType(tv, TYPED_VARIABLES[i]) \o
         FormatVariablesFrom(tv, i + 1)

FormatVariables(tv) == "variables\n" \o FormatVariablesFrom(tv, 1)

\* _format_method checking the gradients only
FormatMethod_GradientsOnly(m, g, h) ==
    IF RequiresGradients(m.cls) /\ g = None
    THEN [status |-> "ValueError", text |-> ""]
    ELSE [status |-> "ok", text |-> to_string(m) \o "\n"]

\* Deck._format_method
FormatMethod(m, g, h) ==
    IF RequiresGradients(m.cls) /\ g = None
    THEN [status |-> "ValueError", text |-> ""]
    ELSE IF RequiresHessians(m.cls) /\ h = None
         THEN [status |-> "ValueError", text |-> ""]
         ELSE [status |-> "ok", text |-> to_string(m) \o "\n"]

\* Deck._format_output_functions: reads self._method.function_key
FormatOutputFunctions(m, fns) ==
    IF "function_key" \notin DOMAIN m
    THEN [status |-> "AttributeError", text |-> ""]
    ELSE LET sep == "  "
         IN [status |-> "ok",
             text |-> "\n\t" \o m.function_key \o "  " \o ToString(Len(fns))
                      \o Ljust("\n\tdescriptors", Len(m.function_key)) \o sep
                      \o sep \o Join(sep, fns)]

\* Deck._format_gradients
FormatGradients(g) ==
    IF g = None THEN [status |-> "ok", text |-> "\n\tno_gradients"]
    ELSE DerivToString(g)

\* Deck._format_hessians
FormatHessians(h) ==
    IF h = None THEN [status |-> "ok", text |-> "\n\tno_hessians"]
    ELSE DerivToString(h)

\* Deck._format_responses
FormatResponses(m, fns, g, h) ==
    LET of == FormatOutputFunctions(m, fns)
        fg == FormatGradients(g)
        fh == FormatHessians(h)
    IN IF of.status # "ok" THEN of
       ELSE IF fg.status # "ok" THEN fg
       ELSE IF fh.status # "ok" THEN fh
       ELSE [status |-> "ok",
             text |-> "responses" \o of.text \o fg.text \o fh.text \o "\n"]

\* Deck._format_interface
FormatInterface(driver, asynchronous, concurrency) ==
    "interface"
    \o "\n\tid_interface \"pandakota v" \o version \o "\""
    \o "\n\tfork"
    \o (IF asynchronous
        THEN "\n\t\tasynchronous"
             \o (IF Truthy(concurrency)
                 THEN "\n\t\t\tevaluation_concurrency = " \o PyFormat(concurrency)
                 ELSE "")
             \o "\n\t\tanalysis_driver = \"" \o driver \o "\""
        ELSE "")
    \o "\n\tparameters_file = " \o files.parameters
    \o "\n\tresults         = " \o files.results
    \o "\n"

\* a call self._format_interface(*args): the three parameters after self
\* are all required
CallFormatInterface(args) ==
    IF Len(args) # 3 THEN [status |-> "TypeError", text |-> ""]
    ELSE [status |-> "ok",
          text |-> FormatInterface(args[1], args[2], args[3])]

\* the header comment block of get_deck
Header(executioner) ==
    "# Dakota Input File" \o "\n# Usage:"
    \o (IF executioner # "" THEN "\n#   " \o executioner ELSE "")
    \o "\n\n"

\* the arguments get_deck passes to _format_interface
GetDeckInterfaceArgs(asynchronous, concurrency) ==
    <<asynchronous, concurrency>>

\* Deck.get_deck
GetDeck(m, fns, g, h, tv, executioner, asynchronous, concurrency) ==
    LET fm == FormatMethod(m, g, h)
        fi == CallFormatInterface(GetDeckInterfaceArgs(asynchronous, concurrency))
        fr == FormatResponses(m, fns, g, h)
    IN IF fm.status # "ok" THEN fm
       ELSE IF fi.status # "ok" THEN fi
       ELSE IF fr.status # "ok" THEN fr
       ELSE [status |-> "ok",
             text |-> Header(executioner) \o fm.text \o fi.text \o
                      FormatVariables(tv) \o fr.text]

-----------------------------------------------------------------------------
(* The Deck: inputs, initial state and operations *)

MaxVars == 4

Key_nuv == <<"n", "u", "v">>
Key_NormalVariable ==
    <<"N", "o", "r", "m", "a", "l", "V", "a", "r", "i", "a", "b", "l", "e">>
Key_u == <<"u">>
Key_s == <<"s">>
Key_d == <<"d">>
Key_badboy ==
    <<"b", "o", "y", " ", "a", "i", "n", "'", "t", " ", "g", "o", "o", "d">>
Key_comma == <<"a", ",", "b">>
Key_dquote == <<"\"", "q">>

\* the variables the caller constructs and offers to add_variable
VarCalls ==
    { NormalUncertainVariable(Key_nuv, PyFloat(FALSE, <<"1">>, 1),
                              PyFloat(FALSE, <<"5">>, -1)),
      NormalUncertainVariable(Key_NormalVariable,
                              PyFloat(TRUE, <<"1", "2", "3", "4">>, 7),
                              PyFloat(FALSE, <<"1">>, -4)),
      UniformUncertainVariable(Key_u, PyFloat(TRUE, <<"3", "3", "3">>, 1),
                               PyFloat(FALSE, <<"3", "3">>, 0)),
      StateVariable(Key_u, "int", PyInt(7)),
      StateVariable(Key_s, "str", PyStr(<<"b">>)),
      StateVariable(Key_badboy, "str", PyStr(<<"b">>)),
      NormalUncertainVariable(Key_comma, PyFloat(FALSE, <<"1">>, 1),
                              PyFloat(FALSE, <<"5">>, -1)),
      UniformUncertainVariable(Key_dquote, PyFloat(FALSE, <<"0">>, 1),
                               PyFloat(FALSE, <<"1">>, 1)),
      DesignVariable(Key_d, Dy(0), Dy(2)) }

VarPool == {r.obj : r \in {c \in VarCalls : c.status = "ok"}}

\* the methods a Deck is constructed with
DeckMethods ==
    LET calls ==
          {Sampling("MonteCarloSampling", PyInt(100), PyInt(42)),
           Sampling("LatinHypercubeSampling", PyInt(400), PyInt(42))}
          \cup {Optpp(c, PyInt(10), PyInt(20), PyFloat(FALSE, <<"1">>, -3))
                  : c \in OptppClasses}
    IN {r.obj : r \in {c \in calls : c.status = "ok"}}

GradientsPool ==
    {None} \cup {r.obj : r \in {Gradients(t) : t \in {DERIVATIVE_NUMERIC, DERIVATIVE_NONE}}}

HessiansPool ==
    {None} \cup {r.obj : r \in {Hessians(t) : t \in {DERIVATIVE_NUMERIC, DERIVATIVE_NONE}}}

Executioners == {"", "echo -i dak.in -o dak.out -write_restart Restart0.rst"}

Concurrencies == {None, PyInt(4)}

NoObject == [cls |-> "absent"]

\* no Study and no Driver process
NoStudy ==
    /\ study = NoObject
    /\ logfile = <<>>
    /\ lock = 0
    /\ drivers = <<>>

NoCall == [op |-> "init", status |-> "ok", text |-> "", arg |-> None]

\* Deck(method, functions=['f'])
InitDeck ==
    /\ NoStudy
    /\ method \in DeckMethods
    /\ all_variable_keys = {}
    /\ typed_variables = [c \in TypedClasses |-> <<>>]
    /\ functions = <<"f">>
    /\ gradients = None
    /\ hessians = None
    /\ uuv = NoObject
    /\ sv = NoObject
    /\ ret = NoCall

\* deck.add_variable(var)
AddVariable ==
    \E var \in VarPool :
      LET r == AddVariableResult(all_variable_keys, typed_variables, var)
      IN /\ Cardinality(r.keys) <= MaxVars
         /\ all_variable_keys' = r.keys
         /\ typed_variables' = r.tv
         /\ ret' = [op |-> "add_variable", status |-> r.status, text |-> "",
                    arg |-> var]
         /\ UNCHANGED <<method, gradients, hessians, functions, uuv, sv, osVars>>

\* deck.gradients = grad
SetGradients ==
    \E grad \in GradientsPool :
      /\ gradients' = grad
      /\ ret' = [op |-> "gradients", status |-> "ok", text |-> "", arg |-> grad]
      /\ UNCHANGED <<all_variable_keys, typed_variables, method, hessians,
                     functions, uuv, sv, osVars>>

\* deck.hessians = hess
SetHessians ==
    \E hess \in HessiansPool :
      /\ hessians' = hess
      /\ ret' = [op |-> "hessians", status |-> "ok", text |-> "", arg |-> hess]
      /\ UNCHANGED <<all_variable_keys, typed_variables, method, gradients,
                     functions, uuv, sv, osVars>>

\* deck.get_deck(executioner, asynchronous, concurrency)
CallGetDeck ==
    \E executioner \in Executioners, asynchronous \in BOOLEAN,
       concurrency \in Concurrencies :
      LET r == GetDeck(method, functions, gradients, hessians, typed_variables,
                       executioner, asynchronous, concurrency)
      IN /\ ret' = [op |-> "get_deck", status |-> r.status, text |-> r.text,
                    arg |-> [executioner |-> executioner,
                             asynchronous |-> asynchronous,
                             concurrency |-> concurrency]]
         /\ UNCHANGED <<all_variable_keys, typed_variables, method, gradients,
                        hessians, functions, uuv, sv, osVars>>

\* deck._format_variables()
CallFormatVariables ==
    /\ ret' = [op |-> "_format_variables", status |-> "ok",
               text |-> FormatVariables(typed_variables), arg |-> None]
    /\ UNCHANGED <<all_variable_keys, typed_variables, method, gradients,
                   hessians, functions, uuv, sv, osVars>>

NextDeck ==
    \/ AddVariable
    \/ SetGradients
    \/ SetHessians
    \/ CallGetDeck
    \/ CallFormatVariables

SpecDeck == InitDeck /\ [][NextDeck]_vars

-----------------------------------------------------------------------------
(* A Latin Hypercube method and its refinements *)

MaxSamples == 4
MaxRefinements == 4
MaxRefinementArg == 18

RefinementArgs == {None} \cup {PyInt(k) : k \in 0..MaxRefinementArg}

\* no Deck: only the object under study exists
NoDeck ==
    /\ all_variable_keys = {}
    /\ typed_variables = [c \in TypedClasses |-> <<>>]
    /\ functions = <<>>
    /\ gradients = None
    /\ hessians = None

\* LatinHypercubeSampling(N, 42)
InitLHS ==
    /\ NoStudy
    /\ NoDeck
    /\ \E n \in 1..MaxSamples :
         method = Sampling("LatinHypercubeSampling", PyInt(n), PyInt(42)).obj
    /\ uuv = NoObject
    /\ sv = NoObject
    /\ ret = NoCall

\* method.add_refinement(refinement_samples) / method.add_refinement()
AddRefinement ==
    \E refinement_samples \in RefinementArgs :
      LET r == LhsAddRefinement(method, refinement_samples)
      IN /\ Len(r.obj.refinements) <= MaxRefinements
         /\ method' = r.obj
         /\ ret' = [op |-> "add_refinement", status |-> r.status, text |-> "",
                    arg |-> refinement_samples]
         /\ UNCHANGED <<deckVars, uuv, sv, osVars>>

\* str(method)
CallToString ==
    /\ ret' = [op |-> "to_string", status |-> "ok", text |-> to_string(method),
               arg |-> None]
    /\ UNCHANGED <<deckVars, method, uuv, sv, osVars>>

NextLHS == AddRefinement \/ CallToString

SpecLHS == InitLHS /\ [][NextLHS]_vars

-----------------------------------------------------------------------------
(* A UniformUncertainVariable and its bound setters.  Bounds are floats    *)
(* with integer values, coded by twice their value (Dy), so the midpoint   *)
(* is exact as it is in binary floating point.                             *)

MaxBound == 3

BoundValues == {Dy(2 * k) : k \in (0 - MaxBound)..MaxBound}

\* the lower setter without the recomputation of the element
UuvSetLower_NoReset(v, l) ==
    IF l.twice >= v.upper.twice
    THEN [status |-> "ValueError", obj |-> v]
    ELSE [status |-> "ok", obj |-> [v EXCEPT !.lower = l]]

\* UniformUncertainVariable.lower setter
UuvSetLower(v, l) ==
    IF l.twice >= v.upper.twice
    THEN [status |-> "ValueError", obj |-> v]
    ELSE LET w == [v EXCEPT !.lower = l]
         IN ElementSet(w, Midpoint(w.upper, w.lower))

\* the upper setter accepting upper == lower
UuvSetUpper_NonStrict(v, u) ==
    IF u.twice < v.lower.twice
    THEN [status |-> "ValueError", obj |-> v]
    ELSE LET w == [v EXCEPT !.upper = u]
         IN ElementSet(w, Midpoint(w.upper, w.lower))

\* UniformUncertainVariable.upper setter
UuvSetUpper(v, u) ==
    IF u.twice <= v.lower.twice
    THEN [status |-> "ValueError", obj |-> v]
    ELSE LET w == [v EXCEPT !.upper = u]
         IN ElementSet(w, Midpoint(w.upper, w.lower))

\* UniformUncertainVariable('u', lower, upper)
InitUniform ==
    /\ NoStudy
    /\ NoDeck
    /\ method = NoObject
    /\ \E l \in BoundValues, u \in BoundValues :
         uuv = UniformUncertainVariable(Key_u, l, u).obj
    /\ sv = NoObject
    /\ ret = NoCall

\* uuv.lower = l
SetLower ==
    \E l \in BoundValues :
      LET r == UuvSetLower(uuv, l)
      IN /\ uuv' = r.obj
         /\ ret' = [op |-> "lower", status |-> r.status, text |-> "", arg |-> l]
         /\ UNCHANGED <<deckVars, method, sv, osVars>>

\* uuv.upper = u
SetUpper ==
    \E u \in BoundValues :
      LET r == UuvSetUpper(uuv, u)
      IN /\ uuv' = r.obj
         /\ ret' = [op |-> "upper", status |-> r.status, text |-> "", arg |-> u]
         /\ UNCHANGED <<deckVars, method, sv, osVars>>

NextUniform == SetLower \/ SetUpper

SpecUniform == InitUniform /\ [][NextUniform]_vars

-----------------------------------------------------------------------------
(* A Variable and the assignment of its element *)

Dtypes == {"int", "float", "str"}

ElementValues ==
    {None, PyInt(7), PyInt(0), PyBool(TRUE), PyFloat(FALSE, <<"1">>, 1),
     PyFloat(FALSE, <<"5">>, -1), PyStr(<<"b">>), PyStr(<<"b", "e", "e">>)}

InitValue ==
    /\ NoStudy
    /\ NoDeck
    /\ method = NoObject
    /\ uuv = NoObject
    /\ sv = NoObject
    /\ ret = NoCall

\* sv = StateVariable(key, dtype, nominal): sv is bound only if no error
NewStateVariable ==
    \E dtype \in Dtypes, nominal \in ElementValues :
      LET r == StateVariable(Key_s, dtype, nominal)
      IN /\ sv' = IF r.status = "ok" THEN r.obj ELSE sv
         /\ ret' = [op |-> "StateVariable", status |-> r.status, text |-> "",
                    arg |-> [dtype |-> dtype, e |-> nominal]]
         /\ UNCHANGED <<deckVars, method, uuv, osVars>>

\* sv = NormalUncertainVariable(key, mean, std_dev)
NewNormalUncertainVariable ==
    \E mean \in ElementValues :
      LET r == NormalUncertainVariable(Key_nuv, mean, PyFloat(FALSE, <<"5">>, -1))
      IN /\ sv' = IF r.status = "ok" THEN r.obj ELSE sv
         /\ ret' = [op |-> "NormalUncertainVariable", status |-> r.status,
                    text |-> "", arg |-> [dtype |-> "float", e |-> mean]]
         /\ UNCHANGED <<deckVars, method, uuv, osVars>>

\* sv.element = e
SetElement ==
    /\ sv # NoObject
    /\ \E e \in ElementValues :
         LET r == ElementSet(sv, e)
         IN /\ sv' = r.obj
            /\ ret' = [op |-> "element", status |-> r.status, text |-> "",
                       arg |-> [dtype |-> sv.dtype, e |-> e]]
            /\ UNCHANGED <<deckVars, method, uuv, osVars>>

NextValue == NewStateVariable \/ NewNormalUncertainVariable \/ SetElement

SpecValue == InitValue /\ [][NextValue]_vars

-----------------------------------------------------------------------------
(* Properties of the Deck registry *)

HasForbiddenChar(key) ==
    \/ Contains(key, " ") \/ Contains(key, "'")
    \/ Contains(key, "\"") \/ Contains(key, ",")

Registered(key) ==
    \/ key \in all_variable_keys
    \/ \E c \in TypedClasses : key \in DictKeys(typed_variables[c])

\* C1: an add_variable call whose key is already registered (under any
\* kind) or holds a space, a quote, a double quote or a comma fails, and
\* leaves the key set and every per-kind mapping as they were.
C1_RejectedAddKeepsRegistry ==
    [][(/\ ret'.op = "add_variable"
        /\ Registered(ret'.arg.key) \/ HasForbiddenChar(ret'.arg.key))
       => /\ ret'.status = "AssertionError"
          /\ all_variable_keys' = all_variable_keys
          /\ typed_variables' = typed_variables]_vars

\* a state variable was refused because a uniform variable holds its key
C1_Witness ==
    /\ ret.op = "add_variable"
    /\ ret.status = "AssertionError"
    /\ ret.arg.cls = StateVariableCls
    /\ ret.arg.key \in DictKeys(typed_variables[UniformUncertainVariableCls])
    /\ Cardinality(all_variable_keys) >= 2

\* C2: the Deck is one flat namespace: every key it iterates over resolves
\* through deck[key] to one variable of that key, every registered variable
\* is returned under its key, and no key is held by two per-kind registries.
C2_FlatNamespace ==
    /\ \A key \in all_variable_keys :
         LET r == GetItem(typed_variables, key)
         IN r.status = "ok" /\ r.obj.key = key
    /\ \A c \in TypedClasses : \A i \in 1..Len(typed_variables[c]) :
         /\ typed_variables[c][i].key \in all_variable_keys
         /\ GetItem(typed_variables, typed_variables[c][i].key).obj
              = typed_variables[c][i]
    /\ \A c1 \in TypedClasses, c2 \in TypedClasses :
         c1 # c2 => DictKeys(typed_variables[c1])
                      \cap DictKeys(typed_variables[c2]) = {}

-----------------------------------------------------------------------------
(* Properties of get_deck *)

DerivativesPresent ==
    /\ RequiresGradients(method.cls) => gradients # None
    /\ RequiresHessians(method.cls) => hessians # None

\* C3: with an OPT++ Newton-family method, get_deck() before Gradients are
\* set fails with the missing-derivatives error, and get_deck() after the
\* Gradients (and the Hessians, where required) are set returns the deck.
C3_NewtonGradientGating ==
    (ret.op = "get_deck" /\ method.cls \in OptppNewtonClasses)
    => /\ gradients = None => ret.status = "ValueError"
       /\ (gradients # None /\ (RequiresHessians(method.cls) => hessians # None))
            => ret.status = "ok" /\ ret.text # ""

\* C4: get_deck() on a Deck whose method requires gradients (hessians) and
\* that has no Gradients (Hessians) set fails with the missing-derivatives
\* error and returns no text.
C4_MissingDerivatives ==
    (/\ ret.op = "get_deck"
     /\ \/ RequiresGradients(method.cls) /\ gradients = None
        \/ RequiresHessians(method.cls) /\ hessians = None)
    => ret.status = "ValueError" /\ ret.text = ""

\* get_deck was refused for missing Hessians though Gradients were set
C4_Witness ==
    /\ ret.op = "get_deck"
    /\ RequiresHessians(method.cls)
    /\ gradients # None
    /\ hessians = None
    /\ ret.status = "ValueError"

\* C9: get_deck() returns the header comment block (with the command line
\* only when a non-empty command is given), then the method block, the
\* interface block, the variables block and the responses block.
C9_BlockOrder ==
    (ret.op = "get_deck" /\ DerivativesPresent)
    => /\ ret.status = "ok"
       /\ \E driver \in {"", "driver"} :
            ret.text =
              "# Dakota Input File\n# Usage:"
              \o (IF ret.arg.executioner # ""
                  THEN "\n#   " \o ret.arg.executioner ELSE "")
              \o "\n\n"
              \o FormatMethod(method, gradients, hessians).text
              \o FormatInterface(driver, ret.arg.asynchronous,
                                 ret.arg.concurrency)
              \o FormatVariables(typed_variables)
              \o FormatResponses(method, functions, gradients, hessians).text

-----------------------------------------------------------------------------
(* Properties of the variables block *)

ClaimedBlockName(cls) ==
    CASE cls = StateVariableCls -> "discrete_state_set"
      [] cls = NormalUncertainVariableCls -> "normal_uncertain"
      [] cls = UniformUncertainVariableCls -> "uniform_uncertain"

\* the rows of one kind: one per field, the values in insertion order
RowsOf(these_variables) ==
    LET props == GetStrings(these_variables[1])
    IN Join("\n\t\t",
            [p \in 1..Len(props) |->
               TSRstrip(PropLine(TSLjust(TS(props[p][1], 0), 16),
                                 these_variables, p))])

ClaimedKindBlock(cls) ==
    LET these_variables == typed_variables[cls]
    IN IF Len(these_variables) = 0 THEN ""
       ELSE "\n\t" \o ClaimedBlockName(cls) \o "  "
            \o ToString(Len(these_variables))
            \o "\n\t\t" \o RowsOf(these_variables) \o "\n"

REF_VARIABLES ==
    "variables\n"
    \o "\n\tnormal_uncertain  2"
    \o "\n\t\tdescriptors     \"nuv\"   \"NormalVariable\""
    \o "\n\t\tmeans            1.0     -1234000.0"
    \o "\n\t\tstd_deviations   0.05    1e-05\n"
    \o "\n\tuniform_uncertain  1"
    \o "\n\t\tdescriptors     \"u\""
    \o "\n\t\tlower_bounds     -3.33"
    \o "\n\t\tupper_bounds     0.33\n"

\* nuv, NormalVariable and u were added, in that order within their kind
ReferenceVariables ==
    /\ typed_variables[StateVariableCls] = <<>>
    /\ Len(typed_variables[NormalUncertainVariableCls]) = 2
    /\ typed_variables[NormalUncertainVariableCls][1].key = Key_nuv
    /\ typed_variables[NormalUncertainVariableCls][2].key = Key_NormalVariable
    /\ Len(typed_variables[UniformUncertainVariableCls]) = 1
    /\ typed_variables[UniformUncertainVariableCls][1].key = Key_u

\* C10: the variables block emits the kinds in the order state,
\* normal-uncertain, uniform-uncertain; an empty kind contributes nothing;
\* a kind of n >= 1 variables contributes the header '<block_name>  <n>'
\* (discrete_state_set, normal_uncertain, uniform_uncertain) and one row
\* per field; nuv, NormalVariable and u render as the reference block.
C10_VariablesBlock ==
    ret.op = "_format_variables"
    => /\ ret.text = "variables\n"
                     \o ClaimedKindBlock(StateVariableCls)
                     \o ClaimedKindBlock(NormalUncertainVariableCls)
                     \o ClaimedKindBlock(UniformUncertainVariableCls)
       /\ ReferenceVariables => ret.text = REF_VARIABLES

\* the part of C10 that the reference block of test_variable_generation
\* exercises
ReferenceBlockRendered ==
    (ret.op = "_format_variables" /\ ReferenceVariables)
    => ret.text = REF_VARIABLES

ReferenceBlockReached ==
    ret.op = "_format_variables" /\ ReferenceVariables

-----------------------------------------------------------------------------
(* Properties of the Latin Hypercube refinements *)

RECURSIVE Pow2(_)
Pow2(n) == IF n = 0 THEN 1 ELSE 2 * Pow2(n - 1)

\* the list is N, 2N, 4N, ...
Doubling(m) ==
    \A i \in 1..Len(m.refinements) :
      m.refinements[i] = PyInt(m.nsamples.i * Pow2(i - 1))

\* C5: the refinement list of a Latin Hypercube method of N samples is
\* N, 2N, 4N, ...: a call without argument appends the next value, a call
\* with that value appends it, a call with another value fails and leaves
\* the list unchanged.
C5_RefinementLaw ==
    [][ret'.op = "add_refinement"
       => LET n    == Len(method.refinements)
              next == PyInt(method.nsamples.i * Pow2(n))
          IN /\ Doubling(method')
             /\ IF ret'.arg = None \/ ret'.arg = next
                THEN /\ ret'.status = "ok"
                     /\ method'.refinements = Append(method.refinements, next)
                ELSE /\ ret'.status = "ValueError"
                     /\ method'.refinements = method.refinements]_vars

\* refinements were added both ways, and a wrong value was then refused
C5_Witness ==
    /\ ret.op = "add_refinement"
    /\ ret.status = "ValueError"
    /\ Len(method.refinements) >= 3

-----------------------------------------------------------------------------
(* Properties of the UniformUncertainVariable *)

\* value == 0.5 * (lower + upper), on the coded floats
IsMidpoint(v) ==
    /\ v.element # None
    /\ 2 * v.element.twice = v.lower.twice + v.upper.twice

BoundUpdated == ret.op \in {"lower", "upper"} /\ ret.status = "ok"

\* C6: once a bound has been updated, value == 0.5 * (lower + upper),
\* and it stays so through every later assignment to a bound.
C6_MidpointAfterUpdates ==
    [][/\ BoundUpdated' => IsMidpoint(uuv')
       /\ IsMidpoint(uuv) => IsMidpoint(uuv')]_vars

\* both bounds have been moved away from the constructed ones
C6_Witness ==
    /\ BoundUpdated
    /\ IsMidpoint(uuv)
    /\ uuv.element.twice % 2 = 1
    /\ uuv.lower.twice + 2 < uuv.upper.twice

\* C7: assigning lower a value >= upper, or upper a value <= lower, fails
\* and leaves lower, upper and value unchanged; an accepted assignment
\* changes only the assigned bound and the recomputed midpoint value.
C7_BoundSetters ==
    [][/\ (ret'.op = "lower" /\ ret'.arg.twice >= uuv.upper.twice)
            => ret'.status = "ValueError" /\ uuv' = uuv
       /\ (ret'.op = "upper" /\ ret'.arg.twice <= uuv.lower.twice)
            => ret'.status = "ValueError" /\ uuv' = uuv
       /\ (ret'.op = "lower" /\ ret'.status = "ok")
            => /\ uuv'.lower = ret'.arg
               /\ IsMidpoint(uuv')
               /\ uuv' = [uuv EXCEPT !.lower = uuv'.lower,
                                     !.element = uuv'.element]
       /\ (ret'.op = "upper" /\ ret'.status = "ok")
            => /\ uuv'.upper = ret'.arg
               /\ IsMidpoint(uuv')
               /\ uuv' = [uuv EXCEPT !.upper = uuv'.upper,
                                     !.element = uuv'.element]]_vars

\* an assignment was refused after the value had been computed
C7_Witness ==
    /\ ret.op = "lower"
    /\ ret.status = "ValueError"
    /\ ret.arg.twice > uuv.upper.twice
    /\ uuv.element # None

-----------------------------------------------------------------------------
(* Properties of the element setter *)

TypeMatches(e, dtype) ==
    \/ e.type = dtype
    \/ e.type = "bool" /\ dtype = "int"

\* C8: assigning a Variable's element an object that is not of the
\* variable's dtype fails with TypeError and leaves the stored value
\* unchanged, at the construction of a StateVariable as on later assignment.
C8_TypeMismatch ==
    [][(/\ ret'.op \in {"StateVariable", "element"}
        /\ ~TypeMatches(ret'.arg.e, ret'.arg.dtype))
       => ret'.status = "TypeError" /\ sv' = sv]_vars

\* a str was refused for an int variable that holds a value
C8_Witness ==
    /\ ret.op = "element"
    /\ ret.status = "TypeError"
    /\ ret.arg.e.type = "str"
    /\ sv.dtype = "int"
    /\ sv.element = PyInt(7)

-----------------------------------------------------------------------------
(* Construction of a Deck and its responses block *)

\* isinstance(meth, methods.Method)
IsMethod(meth) == "id_method" \in DOMAIN meth

\* Deck.__init__(method, functions): a bare str is wrapped into a list
DeckInit(meth, fns) ==
    IF ~IsMethod(meth)
    THEN [status |-> "TypeError", method |-> None, functions |-> <<>>]
    ELSE [status |-> "ok", method |-> meth,
          functions |-> IF fns.type = "str" THEN <<Str(fns.s)>> ELSE fns.items]

\* the functions arguments a caller constructs a Deck with
FunctionArgs ==
    {PyStr(<<"f">>), PyStr(<<"f", "g">>), PyList(<<"f">>),
     PyList(<<"f", "g">>), PyList(<<"g", "f">>), PyList(<<"f", "f">>),
     PyList(<<"g", "f", "h">>), PyList(<<"f", "g", "f">>)}

InitResponses ==
    /\ NoStudy
    /\ NoDeck
    /\ method = NoObject
    /\ uuv = NoObject
    /\ sv = NoObject
    /\ ret = NoCall

\* deck = Deck(meth, fns): deck is bound only if no error
NewDeck ==
    \E meth \in DeckMethods \cup {None}, fns \in FunctionArgs :
      LET r == DeckInit(meth, fns)
      IN /\ IF r.status = "ok"
            THEN /\ method' = r.method
                 /\ functions' = r.functions
                 /\ all_variable_keys' = {}
                 /\ typed_variables' = [c \in TypedClasses |-> <<>>]
                 /\ gradients' = None
                 /\ hessians' = None
            ELSE UNCHANGED <<method, deckVars>>
         /\ ret' = [op |-> "Deck", status |-> r.status, text |-> "",
                    arg |-> fns]
         /\ UNCHANGED <<uuv, sv, osVars>>

DeckExists == method # NoObject

\* deck._format_responses()
CallFormatResponses ==
    /\ DeckExists
    /\ LET r == FormatResponses(method, functions, gradients, hessians)
       IN ret' = [op |-> "_format_responses", status |-> r.status,
                  text |-> r.text, arg |-> None]
    /\ UNCHANGED <<deckVars, method, uuv, sv, osVars>>

NextResponses ==
    \/ NewDeck
    \/ DeckExists /\ SetGradients
    \/ DeckExists /\ SetHessians
    \/ CallFormatResponses

SpecResponses == InitResponses /\ [][NextResponses]_vars

\* the function keyword of the claimed count line
ClaimedFunctionKeyword ==
    IF method.cls \in SamplingClasses THEN "response_functions"
    ELSE "objective_functions"

\* the claimed responses block of the current Deck
ClaimedResponses ==
    "responses"
    \o "\n\t" \o ClaimedFunctionKeyword \o "  " \o ToString(Len(functions))
    \o "\n\tdescriptors" \o Spaces(Len(ClaimedFunctionKeyword) + 2 - 11)
    \o Join("  ", functions)
    \o FormatGradients(gradients).text \o FormatHessians(hessians).text
    \o "\n"

\* C11: the responses block is the line 'responses', the count line
\* '<function keyword>  <n>', the 'descriptors' line with the names aligned
\* to the count column, the gradients text, the hessians text and a newline;
\* a single function f with no derivatives under an optimizer renders as the
\* literal block of objective_functions.
C11_ResponsesBlock ==
    ret.op = "_format_responses"
    => /\ ret.status = "ok"
       /\ ret.text = ClaimedResponses
       /\ (/\ functions = <<"f">> /\ gradients = None /\ hessians = None
           /\ method.cls \notin SamplingClasses)
          => ret.text = "responses\n\tobjective_functions  1"
                        \o "\n\tdescriptors          f"
                        \o "\n\tno_gradients\n\tno_hessians\n"

HasDuplicate(names) ==
    \E i \in 1..Len(names), j \in 1..Len(names) : i # j /\ names[i] = names[j]

\* C19: the function names of a Deck are unique and ordered: constructing a
\* Deck with a repeated name fails with the duplicate-key error, a bare
\* string is stored as a one-element list, and the responses block lists
\* the names in the caller's order.
C19_FunctionNames ==
    /\ ret.op = "Deck" /\ ret.arg.type = "list" /\ HasDuplicate(ret.arg.items)
       => ret.status = "AssertionError"
    /\ ret.op = "Deck" /\ ret.status = "ok" /\ ret.arg.type = "str"
       => functions = <<Str(ret.arg.s)>>
    /\ ret.op = "Deck" /\ ret.status = "ok" /\ ret.arg.type = "list"
       => functions = ret.arg.items
    /\ ret.op = "_format_responses"
       => ret.status = "ok" /\ ret.text = ClaimedResponses

-----------------------------------------------------------------------------
(* A sampling method inside a Deck: its text and its method block *)

MaxListed == 2

SampleCounts == {1, 100, 400}
Seeds == {42, 0, -7}
SamplingRefinementArgs == {None} \cup {PyInt(k) : k \in {1, 2, 3, 100, 200}}

\* Deck(Sampling(s, k), ['f'])
InitSampling ==
    /\ NoStudy
    /\ \E cls \in SamplingClasses, s \in SampleCounts, k \in Seeds :
         method = Sampling(cls, PyInt(s), PyInt(k)).obj
    /\ all_variable_keys = {}
    /\ typed_variables = [c \in TypedClasses |-> <<>>]
    /\ functions = <<"f">>
    /\ gradients = None
    /\ hessians = None
    /\ uuv = NoObject
    /\ sv = NoObject
    /\ ret = NoCall

\* method.add_refinement(refinement_samples), dispatched on the class; only
\* LatinHypercubeSampling has the default argument
AddSamplingRefinement ==
    \E refinement_samples \in SamplingRefinementArgs :
      LET r == IF method.cls = "LatinHypercubeSampling"
               THEN LhsAddRefinement(method, refinement_samples)
               ELSE MethodAddRefinement(method, refinement_samples)
      IN /\ method.cls = "MonteCarloSampling" => refinement_samples # None
         /\ Len(r.obj.refinements) <= MaxListed
         /\ method' = r.obj
         /\ ret' = [op |-> "add_refinement", status |-> r.status, text |-> "",
                    arg |-> refinement_samples]
         /\ UNCHANGED <<deckVars, uuv, sv, osVars>>

\* deck._format_method() that hands the refinements over and clears them
CallFormatMethod_Consuming ==
    /\ LET r == FormatMethod(method, gradients, hessians)
       IN ret' = [op |-> "_format_method", status |-> r.status,
                  text |-> r.text, arg |-> None]
    /\ method' = IF "refinements" \in DOMAIN method
                 THEN [method EXCEPT !.refinements = <<>>]
                 ELSE method
    /\ UNCHANGED <<deckVars, uuv, sv, osVars>>

\* deck._format_method()
CallFormatMethod ==
    /\ LET r == FormatMethod(method, gradients, hessians)
       IN ret' = [op |-> "_format_method", status |-> r.status,
                  text |-> r.text, arg |-> None]
    /\ UNCHANGED <<deckVars, method, uuv, sv, osVars>>

NextSampling == AddSamplingRefinement \/ CallToString \/ CallFormatMethod

SpecSampling == InitSampling /\ [][NextSampling]_vars

RECURSIVE Listed(_)
Listed(ns) ==
    IF ns = <<>> THEN ""
    ELSE ToString(Head(ns).i) \o (IF Len(ns) > 1 THEN " " ELSE "")
         \o Listed(Tail(ns))

\* the claimed text of a sampling method with samples s, seed k and the
\* refinements rs
ClaimedSamplingText(cls, s, k, rs) ==
    "method\n\tid_method = \"UQ\"\n\tsampling"
    \o "\n\t\tsample_type = "
    \o (IF cls = "MonteCarloSampling" THEN "random" ELSE "lhs")
    \o "\n\t\tseed = " \o ToString(k)
    \o "\n\t\tsamples = " \o ToString(s)
    \o (IF Len(rs) >= 1 THEN "\n\t\t\trefinement_samples = " \o Listed(rs)
        ELSE "")

\* C12: to_string() of a sampling method with samples s and seed k is the
\* lines method, id_method = "UQ", sampling, sample_type, seed = k,
\* samples = s, followed by the refinement_samples line, in the order the
\* refinements were added, exactly when a refinement has been added;
\* MonteCarloSampling(100, 42) renders as the literal text, and the Deck's
\* method block is the text plus a newline.
C12_SamplingText ==
    [][/\ ret'.op = "add_refinement" /\ ret'.status = "ok"
          => method'.refinements
               = Append(method.refinements,
                        IF ret'.arg = None
                        THEN method'.refinements[Len(method'.refinements)]
                        ELSE ret'.arg)
       /\ ret'.op = "to_string"
          => /\ ret'.status = "ok"
             /\ ret'.text = ClaimedSamplingText(method.cls, method.nsamples.i,
                                                method.seed.i,
                                                method.refinements)
             /\ method = Sampling("MonteCarloSampling", PyInt(100),
                                  PyInt(42)).obj
                => ret'.text = "method\n\tid_method = \"UQ\"\n\tsampling"
                               \o "\n\t\tsample_type = random"
                               \o "\n\t\tseed = 42\n\t\tsamples = 100"
       /\ ret'.op = "_format_method"
          => /\ ret'.status = "ok"
             /\ ret'.text = ClaimedSamplingText(method.cls, method.nsamples.i,
                                                method.seed.i,
                                                method.refinements) \o "\n"
      ]_vars

\* a Monte Carlo method listed two refinements in the order they were added
C12_Witness ==
    /\ ret.op = "to_string"
    /\ method.cls = "MonteCarloSampling"
    /\ method.refinements = <<PyInt(200), PyInt(3)>>
    /\ ret.text = "method\n\tid_method = \"UQ\"\n\tsampling"
                  \o "\n\t\tsample_type = random\n\t\tseed = -7"
                  \o "\n\t\tsamples = 100"
                  \o "\n\t\t\trefinement_samples = 200 3"

-----------------------------------------------------------------------------
(* Gradients and Hessians: construction and text *)

StepSizes ==
    {None, PyList(<<>>), PyList(<<PyFloat(FALSE, <<"1">>, 0)>>),
     PyList(<<PyFloat(FALSE, <<"1">>, 0), PyFloat(FALSE, <<"1">>, -4)>>)}

IdLists == {None, PyList(<<>>), PyList(<<PyInt(1), PyInt(2)>>)}

\* a type written in capitals: not a member of the type sets
Chars_NO == <<"N", "O">>

TypeArgs ==
    {None, DERIVATIVE_NONE, DERIVATIVE_NUMERIC, DERIVATIVE_ANALYTIC,
     DERIVATIVE_MIXED, HESSIAN_QUASI, PyStr(Chars_NO)}

\* the arguments of a call Gradients(...)
GradientsArgs ==
    [gradient_type : TypeArgs,
     method_source : {None, SOURCE_DAKOTA, SOURCE_VENDOR, TYPE_CENTRAL},
     interval_type : {None, TYPE_CENTRAL, TYPE_FORWARD},
     fd_step_size : StepSizes,
     id_numerical : {None, PyList(<<PyInt(1), PyInt(2)>>)},
     id_analytic : {None, PyList(<<PyInt(3)>>)}]

\* the arguments of a call Hessians(...)
HessiansArgs ==
    [hessian_type : TypeArgs,
     interval_type : {None, TYPE_CENTRAL},
     step_scaling : {None, SCALING_RELATIVE, SOURCE_DAKOTA},
     quasi_approximation : {None, QUASI_BFGS, QUASI_SR1},
     fd_step_size : {None, PyList(<<PyFloat(FALSE, <<"1">>, 0)>>)},
     id_numerical : {None, PyList(<<PyInt(1), PyInt(2)>>)},
     id_analytic : {None, PyList(<<PyInt(3)>>)},
     id_quasi : IdLists,
     damped : {PyBool(FALSE), PyBool(TRUE)}]

CallGradients(a) ==
    GradientsInit(a.gradient_type, a.method_source, a.interval_type,
                  a.fd_step_size, a.id_numerical, a.id_analytic)

CallHessians(a) ==
    HessiansInit(a.hessian_type, a.interval_type, a.step_scaling,
                 a.quasi_approximation, a.fd_step_size, a.id_numerical,
                 a.id_analytic, a.id_quasi, a.damped)

\* g = Gradients(...) or h = Hessians(...): one constructor call was made
InitDerivatives ==
    /\ NoStudy
    /\ all_variable_keys = {}
    /\ typed_variables = [c \in TypedClasses |-> <<>>]
    /\ functions = <<>>
    /\ method = NoObject
    /\ uuv = NoObject
    /\ sv = NoObject
    /\ \/ \E a \in GradientsArgs :
            /\ gradients = CallGradients(a).obj
            /\ hessians = None
            /\ ret = [op |-> "Gradients", status |-> CallGradients(a).status,
                      text |-> "", arg |-> a]
       \/ \E a \in HessiansArgs :
            /\ hessians = CallHessians(a).obj
            /\ gradients = None
            /\ ret = [op |-> "Hessians", status |-> CallHessians(a).status,
                      text |-> "", arg |-> a]

\* str(g)
CallGradientsToString ==
    /\ gradients # None
    /\ ret' = [op |-> "to_string", status |-> "ok",
               text |-> GradientsToString(gradients), arg |-> None]
    /\ UNCHANGED <<deckVars, method, uuv, sv, osVars>>

\* str(h)
CallHessiansToString ==
    /\ hessians # None
    /\ LET r == HessiansToString(hessians)
       IN ret' = [op |-> "to_string", status |-> r.status, text |-> r.text,
                  arg |-> None]
    /\ UNCHANGED <<deckVars, method, uuv, sv, osVars>>

NextDerivatives == CallGradientsToString \/ CallHessiansToString

SpecDerivatives == InitDerivatives /\ [][NextDerivatives]_vars

\* C13: a Gradients (a Hessians) object whose type is the none sentinel
\* serializes to the one directive no_gradients (no_hessians) on its
\* tab-indented line, with no subsection line, whatever source, interval
\* type, step sizes and id lists it was constructed with.
C13_NoneSentinel ==
    /\ (/\ ret.op = "to_string" /\ gradients # None
        /\ gradients.derivative_type = None)
       => ret.status = "ok" /\ ret.text = "\t" \o "no_gradients"
    /\ (/\ ret.op = "to_string" /\ hessians # None
        /\ hessians.derivative_type = None)
       => ret.status = "ok" /\ ret.text = "\t" \o "no_hessians"
    /\ ret.op = "Gradients" /\ ret.status = "ok"
       => (gradients.derivative_type = None
           <=> ret.arg.gradient_type \in {None, DERIVATIVE_NONE})
    /\ ret.op = "Hessians" /\ ret.status = "ok"
       => (hessians.derivative_type = None
           <=> ret.arg.hessian_type \in {None, DERIVATIVE_NONE})

\* a Gradients object of type none that holds a source, an interval type,
\* step sizes and id lists was serialized
C13_Witness ==
    /\ ret.op = "to_string"
    /\ gradients # None
    /\ gradients.derivative_type = None
    /\ gradients.method_source = SOURCE_DAKOTA
    /\ gradients.interval_type = TYPE_CENTRAL
    /\ Truthy(gradients.fd_step_size)
    /\ Truthy(gradients.id_numerical)
    /\ Truthy(gradients.id_analytic)
    /\ ret.text = "\tno_gradients"

\* the arguments of a Hessians call other than the quasi ones are acceptable
OtherHessiansArgsValid(a) ==
    /\ a.hessian_type \in {None} \cup HESSIAN_TYPES
    /\ a.interval_type \in {None} \cup INTERVAL_TYPES
    /\ a.step_scaling \in {None} \cup HESSIAN_STEP_SCALINGS
    /\ Truthy(a.damped) => a.quasi_approximation = QUASI_BFGS

\* the selection that needs a quasi approximation
QuasiSelected(a) ==
    \/ a.hessian_type = HESSIAN_QUASI
    \/ a.hessian_type = DERIVATIVE_MIXED /\ Truthy(a.id_quasi)

\* C14: Hessians needs a quasi_approximation whenever hessian_type is quasi,
\* or is mixed with a non-empty id_quasi: the construction without one
\* fails, and the construction with BFGS or SR1 succeeds.
C14_QuasiApproximation ==
    (ret.op = "Hessians" /\ QuasiSelected(ret.arg))
    => /\ ret.arg.quasi_approximation = None => ret.status = "AssertionError"
       /\ (/\ ret.arg.quasi_approximation \in HESSIAN_QUASI_APPROXIMATIONS
           /\ OtherHessiansArgsValid(ret.arg))
          => ret.status = "ok"

-----------------------------------------------------------------------------
(* Construction of the optimization methods *)

UpperChar(c) ==
    IF \E i \in 1..26 : LowerChars[i] = c
    THEN UpperChars[CHOOSE i \in 1..26 : LowerChars[i] = c]
    ELSE c

\* s.upper() and s.capitalize(), as the caller writes the values
Upper(x) == PyStr([i \in 1..Len(x.s) |-> UpperChar(x.s[i])])
Capitalize(x) ==
    PyStr([i \in 1..Len(x.s) |-> IF i = 1 THEN UpperChar(x.s[i]) ELSE x.s[i]])

S_bogus == PyStr(<<"b", "o", "g", "u", "s">>)
S_empty == PyStr(<<>>)
S_path == PyStr(<<"x", ".", "d", "a", "t">>)
S_radial == PyStr(<<"r", "a", "d", "i", "a", "l">>)

\* the arguments of a call SogaOptimize(...) / MogaOptimize(...); only
\* MogaOptimize has the parameters niching_type and postprocessor_type
JegaArgs ==
  {a \in
    [cls : JegaClasses,
     max_iterations : {PyInt(10)},
     max_function_evaluations : {PyInt(20)},
     convergence_tolerance : {PyFloat(FALSE, <<"1">>, -2)},
     population_size : {PyInt(50)},
     seed : {PyInt(1)},
     replacement_type : {None, S_empty, S_elitist, Capitalize(S_favor_feasible),
                         S_below_limit, S_bogus},
     convergence_type : {None, Upper(S_metric_tracker)},
     initialization_type : {None, S_unique_random, S_flat_file,
                            Upper(S_flat_file)},
     crossover_type : {None, S_shuffle_random, Capitalize(S_shuffle_random),
                       S_multi_point_real},
     crossover_rate : {None, PyFloat(FALSE, <<"8">>, 0)},
     mutation_type : {None, Upper(S_bit_random)},
     mutation_rate : {PyFloat(FALSE, <<"1">>, 0)},
     num_parents : {None, PyInt(2)},
     num_offspring : {None, PyInt(0)},
     flat_file_path : {None, S_empty, S_path},
     niching_type : {None, S_radial},
     postprocessor_type : {None}] :
    a.cls = "SogaOptimize" => a.niching_type = None}

\* the values offered for a numeric-range parameter
RangeValues ==
    {None, PyInt(-1), PyInt(0), PyInt(1), PyInt(2),
     PyFloat(TRUE, <<"5">>, 0), PyFloat(FALSE, <<"0">>, 1),
     PyFloat(FALSE, <<"1">>, -4), PyFloat(FALSE, <<"5">>, 0),
     PyFloat(FALSE, <<"9", "9">>, 0), PyFloat(FALSE, <<"1">>, 1),
     PyFloat(FALSE, <<"1", "5">>, 1)}

\* the arguments of a call to one of the OPT++ Newton classes
OptppNewtonArgs ==
    [cls : OptppNewtonClasses,
     max_iterations : {PyInt(10)},
     max_function_evaluations : {PyInt(20)},
     convergence_tolerance : {PyFloat(FALSE, <<"1">>, -2)},
     max_step : {None},
     gradient_tolerance : {None},
     speculative : {PyBool(FALSE)},
     merit_function : {None, S_empty, S_el_bakry, Upper(S_van_shanno),
                       S_tr_pds},
     search_method : {None, S_tr_pds, Capitalize(S_trust_region),
                      S_el_bakry},
     centering_parameter : RangeValues,
     steplength_to_boundary : RangeValues]

\* the arguments of a call ColinyCobylaOptimize(...)
ColinyCobylaArgs ==
    [cls : {"ColinyCobylaOptimize"},
     max_iterations : {PyInt(10), PyInt(30)},
     max_function_evaluations : {PyInt(20)},
     convergence_tolerance : {PyFloat(FALSE, <<"1">>, -2)},
     initial_delta : {None, PyFloat(FALSE, <<"5">>, 0)},
     variable_tolerance : RangeValues,
     solution_target : {None, PyInt(0)}]

\* the constructor call, dispatched on the class named in the arguments
CallMethod(a) ==
    CASE a.cls \in JegaClasses -> Jega(a.cls, a)
      [] a.cls \in OptppNewtonClasses -> OptppNewton(a.cls, a)
      [] a.cls = "ColinyCobylaOptimize" -> ColinyCobyla(a)

\* m = Cls(...): one constructor call was made; m is bound if it succeeded
InitMethods ==
    /\ NoStudy
    /\ NoDeck
    /\ uuv = NoObject
    /\ sv = NoObject
    /\ \E a \in JegaArgs \cup OptppNewtonArgs \cup ColinyCobylaArgs :
         /\ method = IF CallMethod(a).status = "ok" THEN CallMethod(a).obj
                     ELSE NoObject
         /\ ret = [op |-> "Method", status |-> CallMethod(a).status,
                   text |-> "", arg |-> a]

\* str(m)
CallMethodToString ==
    /\ method # NoObject
    /\ CallToString

NextMethods == CallMethodToString

SpecMethods == InitMethods /\ [][NextMethods]_vars

-----------------------------------------------------------------------------
(* Properties of method construction *)

\* the enum parameters of a class and the set each is checked against
EnumParams(cls) ==
    IF cls \in JegaClasses
    THEN {"replacement_type", "convergence_type", "initialization_type",
          "crossover_type", "mutation_type"}
    ELSE IF cls \in OptppNewtonClasses
    THEN {"merit_function", "search_method"}
    ELSE {}

AllowedSet(cls, p) ==
    CASE p = "replacement_type" -> replacement_types(cls)
      [] p = "convergence_type" -> convergence_types(cls)
      [] p = "initialization_type" -> initialization_types
      [] p = "crossover_type" -> crossover_types
      [] p = "mutation_type" -> mutation_types
      [] p = "merit_function" -> merit_functions
      [] p = "search_method" -> search_methods

\* a value was given for the parameter (None and '' stand for no value)
Given(v) == v # None /\ v.s # <<>>

LowerCased(v) == PyStr(Lower(v.s))

InClosedUnit(x) == x = None \/ (NumLe(Zero, x) /\ NumLe(x, One))
InOpenUnit(x) == x = None \/ (NumLt(Zero, x) /\ NumLt(x, One))

\* what a call must satisfy besides its enum values: the maxima in order,
\* the conditional fields with their companions, the numbers in range
OtherArgsValid(a) ==
    /\ ~OptimizeRejects(a)
    /\ a.cls \in JegaClasses =>
         /\ (Given(a.initialization_type)
             /\ LowerCased(a.initialization_type) = S_flat_file)
            => Truthy(a.flat_file_path)
         /\ ~(Given(a.crossover_type)
              /\ LowerCased(a.crossover_type) = S_shuffle_random)
            => a.num_parents = None /\ a.num_offspring = None
         /\ a.niching_type = None /\ a.postprocessor_type = None
    /\ a.cls \in OptppNewtonClasses =>
         /\ InClosedUnit(a.centering_parameter)
         /\ InOpenUnit(a.steplength_to_boundary)
    /\ a.cls = "ColinyCobylaOptimize" => InOpenUnit(a.variable_tolerance)

RangeParamsOk(a) ==
    IF a.cls \in OptppNewtonClasses
    THEN InClosedUnit(a.centering_parameter)
         /\ InOpenUnit(a.steplength_to_boundary)
    ELSE InOpenUnit(a.variable_tolerance)

EnumsValid(a) ==
    \A p \in EnumParams(a.cls) :
      Given(a[p]) => LowerCased(a[p]) \in AllowedSet(a.cls, p)

\* C16: a numeric-range parameter outside its interval makes the
\* construction fail with the out-of-range error (ValueError) and one
\* inside is stored unchanged: centering_parameter on [0, 1],
\* steplength_to_boundary and variable_tolerance on (0, 1), None always.
C16_NumericRange ==
    (ret.op = "Method" /\ ret.arg.cls \notin JegaClasses
     /\ ~OptimizeRejects(ret.arg) /\ EnumsValid(ret.arg))
    => LET a == ret.arg
       IN /\ ~RangeParamsOk(a) => ret.status = "ValueError"
          /\ RangeParamsOk(a)
             => /\ ret.status = "ok"
                /\ a.cls \in OptppNewtonClasses
                   => /\ method.centering_parameter = a.centering_parameter
                      /\ method.steplength_to_boundary
                           = a.steplength_to_boundary
                /\ a.cls = "ColinyCobylaOptimize"
                   => method.variable_tolerance = a.variable_tolerance

\* C17: a JEGA method refuses, at construction, a flat-file path given
\* while the initialization type is not flat_file, as it refuses flat_file
\* without a path.
C17_PathWithoutFlatFile ==
    (ret.op = "Method" /\ ret.arg.cls \in JegaClasses)
    => LET a == ret.arg
           flat == Given(a.initialization_type)
                   /\ LowerCased(a.initialization_type) = S_flat_file
       IN /\ (Truthy(a.flat_file_path) /\ ~flat) => ret.status # "ok"
          /\ (flat /\ ~Truthy(a.flat_file_path)) => ret.status # "ok"

\* C18: the conditional constraints of a JEGA method hold from its
\* construction on: num_parents or num_offspring with a crossover type
\* other than shuffle_random (in any letter case), or with none, fails; an
\* initialization type flat_file (in any letter case) without a path
\* fails; so no constructed method that reaches to_string breaks either.
C18_ConditionalConstraints ==
    /\ (ret.op = "Method" /\ ret.arg.cls \in JegaClasses)
       => LET a == ret.arg
          IN /\ (/\ a.num_parents # None \/ a.num_offspring # None
                 /\ ~(Given(a.crossover_type)
                      /\ LowerCased(a.crossover_type) = S_shuffle_random))
                => ret.status = "AssertionError"
             /\ (/\ Given(a.initialization_type)
                 /\ LowerCased(a.initialization_type) = S_flat_file
                 /\ ~Truthy(a.flat_file_path))
                => ret.status = "AssertionError"
    /\ (method # NoObject /\ method.cls \in JegaClasses)
       => /\ method.crossover_type # S_shuffle_random
             => method.num_parents = None /\ method.num_offspring = None
          /\ method.initialization_type = S_flat_file
             => Truthy(method.flat_file_path)

\* FLAT_FILE was refused for want of a path in a call that was otherwise
\* acceptable, and carried num_offspring under Shuffle_random
C18_Witness ==
    /\ ret.op = "Method"
    /\ ret.status = "AssertionError"
    /\ ret.arg.cls = "MogaOptimize"
    /\ ret.arg.initialization_type = Upper(S_flat_file)
    /\ ret.arg.flat_file_path = None
    /\ ret.arg.crossover_type = Capitalize(S_shuffle_random)
    /\ ret.arg.num_offspring = PyInt(0)
    /\ ret.arg.replacement_type = S_below_limit
    /\ ret.arg.niching_type = None
    /\ method = NoObject

-----------------------------------------------------------------------------
(* A DesignVariable and its initial point *)

MaxDesign == 1

\* bounds and initial points offered for each dtype; the floats are whole
\* numbers, so the default initial point may be a half
DesignBounds(dtype) ==
    IF dtype = "float" THEN {Dy(2 * k) : k \in (0 - MaxDesign)..MaxDesign}
    ELSE {PyInt(k) : k \in (0 - MaxDesign)..MaxDesign}

DesignInitials(dtype) ==
    IF dtype = "float"
    THEN {Dy(2 * k) : k \in (0 - MaxDesign - 1)..(MaxDesign + 1)}
    ELSE {PyInt(k) : k \in (0 - MaxDesign - 1)..(MaxDesign + 1)}

InitDesign ==
    /\ NoStudy
    /\ NoDeck
    /\ method = NoObject
    /\ uuv = NoObject
    /\ sv = NoObject
    /\ ret = NoCall

\* sv = DesignVariable('d', lower, upper, dtype, initial): sv is bound only
\* if no error
NewDesignVariable ==
    \E dtype \in {"float", "int"} :
      \E lower \in DesignBounds(dtype), upper \in DesignBounds(dtype),
         initial \in {None} \cup DesignInitials(dtype) :
        LET r == DesignVariableInit(Key_d, lower, upper, dtype, initial)
        IN /\ sv' = IF r.status = "ok" THEN r.obj ELSE sv
           /\ ret' = [op |-> "DesignVariable", status |-> r.status,
                      text |-> "",
                      arg |-> [dtype |-> dtype, lower |-> lower,
                               upper |-> upper, initial |-> initial]]
           /\ UNCHANGED <<deckVars, method, uuv, osVars>>

\* sv.initial = initial_point
SetInitial ==
    /\ sv # NoObject
    /\ \E initial_point \in DesignInitials(sv.dtype) :
         LET r == InitialSet(sv, initial_point)
         IN /\ sv' = r.obj
            /\ ret' = [op |-> "initial", status |-> r.status, text |-> "",
                       arg |-> [dtype |-> sv.dtype, lower |-> sv.lower,
                                upper |-> sv.upper,
                                initial |-> initial_point]]
            /\ UNCHANGED <<deckVars, method, uuv, osVars>>

NextDesign == NewDesignVariable \/ SetInitial

SpecDesign == InitDesign /\ [][NextDesign]_vars

\* the initial point a call offers: the default one when none is given
OfferedInitial(a) ==
    IF a.initial = None THEN DefaultElement(a.dtype, a.lower, a.upper)
    ELSE a.initial

\* C20 as stated: a DesignVariable accepts an initial point only when
\* lower < initial <= upper, at construction (the default initial point
\* included) and on every reassignment, and a rejected reassignment leaves
\* the stored initial point unchanged.
C20_InitialStrictlyAboveLower ==
    [][ret'.op \in {"DesignVariable", "initial"}
       => /\ ret'.status = "ok"
             => /\ Twice(ret'.arg.lower) < Twice(OfferedInitial(ret'.arg))
                /\ Twice(OfferedInitial(ret'.arg)) <= Twice(ret'.arg.upper)
          /\ (ret'.op = "initial" /\ ret'.status # "ok") => sv' = sv]_vars

\* C20 amended: a DesignVariable accepts an initial point exactly when
\* lower <= initial <= upper, at construction (the default initial point
\* included) and on every reassignment; it is stored as given, and a
\* rejected reassignment fails with AssertionError and leaves the stored
\* initial point unchanged.
C20_InitialWithinBounds ==
    [][ret'.op \in {"DesignVariable", "initial"}
       => LET within ==
                /\ Twice(ret'.arg.lower) <= Twice(OfferedInitial(ret'.arg))
                /\ Twice(OfferedInitial(ret'.arg)) <= Twice(ret'.arg.upper)
          IN /\ ret'.status = "ok" <=> within
             /\ ret'.status = "ok"
                => sv'.initial = OfferedInitial(ret'.arg)
             /\ ret'.status # "ok"
                => ret'.status = "AssertionError" /\ sv' = sv]_vars

\* a point below the lower bound was refused while the variable holds an
\* initial point equal to its lower bound
C20_Witness ==
    /\ ret.op = "initial"
    /\ ret.status = "AssertionError"
    /\ Twice(ret.arg.initial) < Twice(sv.lower)
    /\ sv.initial = sv.lower
    /\ Twice(sv.lower) < Twice(sv.upper)

-----------------------------------------------------------------------------
(* Gradients.gradient_type and Hessians.hessian_type: assignment *)

\* the gradient_type setter: g.gradient_type = gtype
GradientTypeSet(d, gtype) ==
    [status |-> "ok", obj |-> [d EXCEPT !.derivative_type = gtype]]

\* the hessian_type setter: h.hessian_type = htype
HessianTypeSet(d, htype) ==
    [status |-> "ok", obj |-> [d EXCEPT !.derivative_type = htype]]

\* g.gradient_type = t
SetGradientType ==
    /\ gradients # None
    /\ \E t \in TypeArgs :
         LET r == GradientTypeSet(gradients, t)
         IN /\ gradients' = r.obj
            /\ ret' = [op |-> "gradient_type", status |-> r.status,
                       text |-> "", arg |-> [value |-> t]]
    /\ UNCHANGED <<all_variable_keys, typed_variables, functions, hessians,
                   method, uuv, sv, osVars>>

\* h.hessian_type = t
SetHessianType ==
    /\ hessians # None
    /\ \E t \in TypeArgs :
         LET r == HessianTypeSet(hessians, t)
         IN /\ hessians' = r.obj
            /\ ret' = [op |-> "hessian_type", status |-> r.status,
                       text |-> "", arg |-> [value |-> t]]
    /\ UNCHANGED <<all_variable_keys, typed_variables, functions, gradients,
                   method, uuv, sv, osVars>>

NextDerivativeTypes ==
    \/ SetGradientType
    \/ SetHessianType
    \/ CallGradientsToString
    \/ CallHessiansToString

\* one Gradients or Hessians object, its type assigned any number of times
SpecDerivativeTypes == InitDerivatives /\ [][NextDerivativeTypes]_vars

\* C21: after construction and any sequence of assignments to gradient_type
\* (hessian_type), the stored type is the none sentinel or a member of the
\* allowed set (numerical, analytic, mixed; and quasi for Hessians), and an
\* assignment of any other value fails.
C21_TypeValidatedOnMutation ==
    /\ gradients # None
       => gradients.derivative_type
            \in {None, DERIVATIVE_NONE} \cup GRADIENT_TYPES
    /\ hessians # None
       => hessians.derivative_type
            \in {None, DERIVATIVE_NONE} \cup HESSIAN_TYPES
    /\ (/\ ret.op = "gradient_type"
        /\ ret.arg.value \notin {None, DERIVATIVE_NONE} \cup GRADIENT_TYPES)
       => ret.status # "ok"
    /\ (/\ ret.op = "hessian_type"
        /\ ret.arg.value \notin {None, DERIVATIVE_NONE} \cup HESSIAN_TYPES)
       => ret.status # "ok"

-----------------------------------------------------------------------------
(* A Deck that is filled and serialized any number of times *)

\* the refinement a caller adds to the sampling method of the Deck
DeckRefinementArgs == {PyInt(200)}

\* deck.method.add_refinement(refinement_samples)
AddDeckRefinement ==
    /\ method.cls \in SamplingClasses
    /\ \E refinement_samples \in DeckRefinementArgs :
         LET r == IF method.cls = "LatinHypercubeSampling"
                  THEN LhsAddRefinement(method, refinement_samples)
                  ELSE MethodAddRefinement(method, refinement_samples)
         IN /\ Len(r.obj.refinements) <= MaxListed
            /\ method' = r.obj
            /\ ret' = [op |-> "add_refinement", status |-> r.status,
                       text |-> "", arg |-> refinement_samples]
    /\ UNCHANGED <<deckVars, uuv, sv, osVars>>

\* deck._format_gradients()
CallFormatGradients ==
    /\ LET r == FormatGradients(gradients)
       IN ret' = [op |-> "_format_gradients", status |-> r.status,
                  text |-> r.text, arg |-> None]
    /\ UNCHANGED <<deckVars, method, uuv, sv, osVars>>

\* deck._format_hessians()
CallFormatHessians ==
    /\ LET r == FormatHessians(hessians)
       IN ret' = [op |-> "_format_hessians", status |-> r.status,
                  text |-> r.text, arg |-> None]
    /\ UNCHANGED <<deckVars, method, uuv, sv, osVars>>

NextSerialize ==
    \/ AddVariable
    \/ SetGradients
    \/ SetHessians
    \/ AddDeckRefinement
    \/ CallFormatMethod
    \/ CallFormatVariables
    \/ CallFormatGradients
    \/ CallFormatHessians
    \/ CallFormatResponses
    \/ CallGetDeck

SpecSerialize == InitDeck /\ [][NextSerialize]_vars

\* the calls that serialize the Deck or a block of it
FormatterOps ==
    {"_format_method", "_format_variables", "_format_gradients",
     "_format_hessians", "_format_responses", "get_deck"}

-----------------------------------------------------------------------------
(* Every concrete method class: construction and the text of each class of *)
(* its hierarchy                                                           *)

\* NcsuDirectOptimize.__init__; a holds the arguments
NcsuDirect(a) ==
    IF OptimizeRejects(a) THEN [status |-> "AssertionError", obj |-> None]
    ELSE [status |-> "ok",
          obj |-> [cls |-> "NcsuDirectOptimize", id_method |-> "Optimize",
                   refinements |-> <<>>,
                   max_iterations |-> a.max_iterations,
                   max_function_evaluations |-> a.max_function_evaluations,
                   convergence_tolerance |-> a.convergence_tolerance,
                   solution_target |-> a.solution_target,
                   min_boxsize_limit |-> a.min_boxsize_limit,
                   volume_boxsize_limit |-> a.volume_boxsize_limit]]

\* OptppPdsOptimize.__init__; a holds the arguments
OptppPds(a) ==
    IF OptimizeRejects(a) THEN [status |-> "AssertionError", obj |-> None]
    ELSE IF a.search_scheme_size # None
            /\ ~IsInstance(a.search_scheme_size, "int")
    THEN [status |-> "AssertionError", obj |-> None]
    ELSE [status |-> "ok",
          obj |-> [cls |-> "OptppPdsOptimize", id_method |-> "Optimize",
                   refinements |-> <<>>,
                   max_iterations |-> a.max_iterations,
                   max_function_evaluations |-> a.max_function_evaluations,
                   convergence_tolerance |-> a.convergence_tolerance,
                   max_step |-> None, gradient_tolerance |-> None,
                   speculative |-> PyBool(FALSE), merit_function |-> None,
                   search_scheme_size |-> a.search_scheme_size]]

\* OptppCgOptimize.__init__; a holds the arguments
OptppCg(a) ==
    IF OptimizeRejects(a) THEN [status |-> "AssertionError", obj |-> None]
    ELSE [status |-> "ok",
          obj |-> [cls |-> "OptppCgOptimize", id_method |-> "Optimize",
                   refinements |-> <<>>,
                   max_iterations |-> a.max_iterations,
                   max_function_evaluations |-> a.max_function_evaluations,
                   convergence_tolerance |-> a.convergence_tolerance,
                   max_step |-> a.max_step,
                   gradient_tolerance |-> a.gradient_tolerance,
                   speculative |-> a.speculative, merit_function |-> None]]

\* NlpqlSqpOptimize(...): Optimize.__init__; a holds the arguments
NlpqlSqp(a) ==
    IF OptimizeRejects(a) THEN [status |-> "AssertionError", obj |-> None]
    ELSE [status |-> "ok",
          obj |-> [cls |-> "NlpqlSqpOptimize", id_method |-> "Optimize",
                   refinements |-> <<>>,
                   max_iterations |-> a.max_iterations,
                   max_function_evaluations |-> a.max_function_evaluations,
                   convergence_tolerance |-> a.convergence_tolerance]]

\* the three arguments of Optimize.__init__, each given or None
OptimizeArgs ==
    [max_iterations : {None, PyInt(10)},
     max_function_evaluations : {None, PyInt(5), PyInt(20)},
     convergence_tolerance : {None, PyFloat(FALSE, <<"1">>, -2)}]

\* the values offered for an optional numeric parameter
OptionalValues == {None, PyInt(0), Zero, PyFloat(FALSE, <<"5">>, 0)}

\* o with the fields of the record extra added
Extend(o, extra) ==
    [f \in DOMAIN o \cup DOMAIN extra |->
       IF f \in DOMAIN extra THEN extra[f] ELSE o[f]]

NcsuDirectArgs ==
    {Extend(o, x) : o \in OptimizeArgs,
                    x \in [cls : {"NcsuDirectOptimize"},
                           solution_target : OptionalValues,
                           min_boxsize_limit : {None, PyFloat(FALSE, <<"1">>, -3)},
                           volume_boxsize_limit : {None, Zero}]}

OptppPdsArgs ==
    {Extend(o, x) : o \in OptimizeArgs,
                    x \in [cls : {"OptppPdsOptimize"},
                           search_scheme_size : {None, PyInt(0), PyInt(64),
                                                 PyFloat(FALSE, <<"5">>, 0)}]}

OptppCgArgs ==
    {Extend(o, x) : o \in OptimizeArgs,
                    x \in [cls : {"OptppCgOptimize"},
                           max_step : OptionalValues,
                           gradient_tolerance : {None, PyFloat(FALSE, <<"1">>, -3)},
                           speculative : {PyBool(FALSE), PyBool(TRUE)}]}

NlpqlSqpArgs ==
    {Extend(o, x) : o \in OptimizeArgs, x \in [cls : {"NlpqlSqpOptimize"}]}

SamplingArgs ==
    [cls : SamplingClasses, nsamples : {PyInt(100), PyInt(200)},
     seed : {PyInt(42), PyInt(0)}]

\* the constructor call of any concrete class
CallAnyMethod(a) ==
    CASE a.cls \in SamplingClasses -> Sampling(a.cls, a.nsamples, a.seed)
      [] a.cls = "NcsuDirectOptimize" -> NcsuDirect(a)
      [] a.cls = "OptppPdsOptimize" -> OptppPds(a)
      [] a.cls = "OptppCgOptimize" -> OptppCg(a)
      [] a.cls = "NlpqlSqpOptimize" -> NlpqlSqp(a)
      [] OTHER -> CallMethod(a)

\* the classes of the hierarchy of cls that define to_string, base first
Mro(cls) ==
    CASE cls \in SamplingClasses -> <<"Method", "Sampling">>
      [] cls = "NlpqlSqpOptimize" -> <<"Method", "Optimize">>
      [] cls = "NcsuDirectOptimize" ->
           <<"Method", "Optimize", "NcsuDirectOptimize">>
      [] cls \in JegaClasses -> <<"Method", "Optimize", "JegaOptimize">>
      [] cls = "ColinyCobylaOptimize" ->
           <<"Method", "Optimize", "ColinyCobylaOptimize">>
      [] cls = "OptppCgOptimize" -> <<"Method", "Optimize", "OptppOptimize">>
      [] cls = "OptppPdsOptimize" ->
           <<"Method", "Optimize", "OptppOptimize", "OptppPdsOptimize">>
      [] cls \in OptppNewtonClasses ->
           <<"Method", "Optimize", "OptppOptimize", "OptppNewtonOptimize">>

\* Base.to_string(m): the to_string that class base defines, applied to m
ToStringAs(base, m) ==
    CASE base = "Method" -> MethodToString(m)
      [] base = "Sampling" -> SamplingToString(m)
      [] base = "Optimize" -> OptimizeToString(m)
      [] base = "NcsuDirectOptimize" -> NcsuDirectToString(m)
      [] base = "JegaOptimize" -> JegaToString(m)
      [] base = "ColinyCobylaOptimize" -> ColinyCobylaToString(m)
      [] base = "OptppOptimize" -> OptppToString(m)
      [] base = "OptppPdsOptimize" -> OptppPdsToString(m)
      [] base = "OptppNewtonOptimize" -> OptppNewtonToString(m)

\* m = Cls(...): one constructor call of any concrete class was made
InitMethodText ==
    /\ NoStudy
    /\ NoDeck
    /\ uuv = NoObject
    /\ sv = NoObject
    /\ \E a \in JegaArgs \cup OptppNewtonArgs \cup ColinyCobylaArgs
                \cup NcsuDirectArgs \cup OptppPdsArgs \cup OptppCgArgs
                \cup NlpqlSqpArgs \cup SamplingArgs :
         /\ method = IF CallAnyMethod(a).status = "ok"
                     THEN CallAnyMethod(a).obj ELSE NoObject
         /\ ret = [op |-> "Method", status |-> CallAnyMethod(a).status,
                   text |-> "", arg |-> a]

\* Base.to_string(m) for a class Base of the hierarchy of m
CallAncestorToString ==
    /\ method # NoObject
    /\ \E i \in 1..Len(Mro(method.cls)) :
         ret' = [op |-> "super_to_string", status |-> "ok",
                 text |-> ToStringAs(Mro(method.cls)[i], method),
                 arg |-> [base |-> Mro(method.cls)[i]]]
    /\ UNCHANGED <<deckVars, method, uuv, sv, osVars>>

NextMethodText ==
    \/ CallMethodToString
    \/ CallAncestorToString
    \/ method # NoObject /\ AddDeckRefinement

SpecMethodText == InitMethodText /\ [][NextMethodText]_vars

\* p is the beginning of t
IsPrefix(p, t) == Len(p) <= Len(t) /\ SubSeq(t, 1, Len(p)) = p

\* the id a method block names: UQ for the sampling methods
ClaimedId(cls) == IF cls \in SamplingClasses THEN "UQ" ELSE "Optimize"

\* C23: for every concrete method class, to_string() begins with
\* 'method\n\tid_method = "<id>"', and the text that the to_string of each
\* class of its hierarchy produces for the same object is a prefix of the
\* text of every class below it and of to_string() itself: no inherited
\* line is removed, reordered or rewritten.
C23_PureExtension ==
    (method # NoObject /\ ret.op \in {"to_string", "super_to_string"})
    => /\ ret.status = "ok"
       /\ IsPrefix("method\n\tid_method = \"" \o ClaimedId(method.cls) \o "\"",
                   ret.text)
       /\ IsPrefix(ret.text, to_string(method))
       /\ ret.op = "to_string"
          => \A i \in 1..Len(Mro(method.cls)) :
               /\ IsPrefix(ToStringAs(Mro(method.cls)[i], method), ret.text)
               /\ \A j \in 1..i :
                    IsPrefix(ToStringAs(Mro(method.cls)[j], method),
                             ToStringAs(Mro(method.cls)[i], method))

\* the text of an OPT++ Newton object that prints a line of each of its
\* four classes was produced
C23_Witness ==
    /\ ret.op = "to_string"
    /\ method # NoObject
    /\ method.cls = "OptppQNewtonOptimize"
    /\ Truthy(method.merit_function)
    /\ Truthy(method.search_method)
    /\ Len(ToStringAs("Optimize", method))
         < Len(ToStringAs("OptppOptimize", method))
    /\ Len(ToStringAs("OptppOptimize", method)) < Len(ret.text)

-----------------------------------------------------------------------------
(* The interface block *)

\* the analysis drivers a caller names
Drivers == {"driver.py", "python3 run.py", "./drive"}

\* deck._format_interface(driver, asynchronous, concurrency)
CallInterface ==
    \E driver \in Drivers, asynchronous \in BOOLEAN,
       concurrency \in Concurrencies :
      LET r == CallFormatInterface(<<driver, asynchronous, concurrency>>)
      IN /\ ret' = [op |-> "_format_interface", status |-> r.status,
                    text |-> r.text,
                    arg |-> [driver |-> driver, asynchronous |-> asynchronous,
                             concurrency |-> concurrency]]
         /\ UNCHANGED <<deckVars, method, uuv, sv, osVars>>

NextInterface == CallInterface \/ CallGetDeck

SpecInterface == InitDeck /\ [][NextInterface]_vars

\* p occurs in t
HasSub(t, p) ==
    \E i \in 1..(Len(t) - Len(p) + 1) : SubSeq(t, i, i + Len(p) - 1) = p

\* C24: in the interface block 'asynchronous' is emitted iff the
\* asynchronous argument is true, 'evaluation_concurrency = n' iff
\* asynchronous is true and a concurrency n is given, and every other line
\* (the interface id, fork with its analysis driver, parameters_file =
\* params.in, results = results.out) is emitted whatever the values of those
\* two arguments.
C24_InterfaceBlock ==
    ret.op = "_format_interface"
    => /\ ret.status = "ok"
       /\ HasSub(ret.text, "\n\t\tasynchronous") <=> ret.arg.asynchronous
       /\ HasSub(ret.text, "evaluation_concurrency = "
                           \o PyFormat(ret.arg.concurrency))
          <=> (ret.arg.asynchronous /\ ret.arg.concurrency # None)
       /\ IsPrefix("interface\n\tid_interface \"pandakota v" \o version
                   \o "\"\n\tfork\n", ret.text)
       /\ HasSub(ret.text,
                 "analysis_driver = \"" \o ret.arg.driver \o "\"\n")
       /\ HasSub(ret.text, "\n\tparameters_file = params.in\n")
       /\ HasSub(ret.text, "\n\tresults         = results.out\n")

-----------------------------------------------------------------------------
(* pandakota/study.py: a Study and its runs *)

MaxRuns == 3

\* names.fmt_files.rst.format(n)
FmtRst(n) == "Restart" \o ToString(n) \o ".rst"

\* Study.__init__(deck, DriverClass, concurrency, asynchronous, bin_path);
\* dak_in is the file dak.in of the study directory, runs the processes
\* launched, each with the restart file recorded after it
StudyInit(concurrency, asynchronous, bin_path) ==
    [cls |-> "Study", concurrency |-> concurrency,
     asynchronous |-> asynchronous, bin_path |-> bin_path,
     last_rst |-> None, dak_in |-> None, runs |-> <<>>]

\* Study._get_execlist
GetExeclist(st, dak_in, dak_out, dak_rst) ==
    <<st.bin_path, "-i", dak_in, "-o", dak_out>>
    \o (IF Truthy(st.last_rst)
        THEN <<"-read_restart", Str(st.last_rst.s)>> ELSE <<>>)
    \o <<"-write_restart", dak_rst>>

\* Study.run_dakota after get_deck: an exception of get_deck ends the call;
\* otherwise _execute_wait writes the deck to dak.in and launches the
\* command, and the restart file is recorded
ExecuteAndRecord(st, deck, launched, first_restart) ==
    IF deck.status # "ok"
    THEN [status |-> deck.status, text |-> "", obj |-> st]
    ELSE [status |-> "ok", text |-> launched,
          obj |-> [st EXCEPT
                     !.dak_in = [type |-> "file", text |-> deck.text],
                     !.runs = Append(@, [cmd |-> launched,
                                         rst |-> first_restart]),
                     !.last_rst = PyStr(<<first_restart>>)]]

\* Study.run_dakota: the deck text is obtained before anything is written
\* or executed
RunDakota(st, m, fns, g, h, tv, dry_run) ==
    LET first_restart == FmtRst(0)
        execlist == GetExeclist(st, files.inp, files.out, first_restart)
    IN ExecuteAndRecord(
         st,
         GetDeck(m, fns, g, h, tv, Join(" ", execlist), st.asynchronous,
                 st.concurrency),
         Join(" ", IF dry_run THEN <<"echo", "Dry Run: $">> \o execlist
                   ELSE execlist),
         first_restart)

\* stu = Study(deck, DriverClass, concurrency, asynchronous, bin_path) on a
\* Deck(method, ['f'])
InitStudy ==
    /\ method \in DeckMethods
    /\ all_variable_keys = {}
    /\ typed_variables = [c \in TypedClasses |-> <<>>]
    /\ functions = <<"f">>
    /\ gradients = None
    /\ hessians = None
    /\ uuv = NoObject
    /\ sv = NoObject
    /\ \E concurrency \in Concurrencies, asynchronous \in BOOLEAN,
          bin_path \in {"echo", "dakota"} :
         study = StudyInit(concurrency, asynchronous, bin_path)
    /\ logfile = <<>>
    /\ lock = 0
    /\ drivers = <<>>
    /\ ret = NoCall

\* stu.run_dakota(dry_run)
CallRunDakota ==
    /\ Len(study.runs) < MaxRuns
    /\ \E dry_run \in BOOLEAN :
         \E r \in {RunDakota(study, method, functions, gradients, hessians,
                             typed_variables, dry_run)} :
            /\ study' = r.obj
            /\ ret' = [op |-> "run_dakota", status |-> r.status,
                       text |-> r.text, arg |-> [dry_run |-> dry_run]]
    /\ UNCHANGED <<deckVars, method, uuv, sv, logfile, lock, drivers>>

NextStudy ==
    \/ CallRunDakota
    \/ SetGradients
    \/ SetHessians

SpecStudy == InitStudy /\ [][NextStudy]_vars

\* C25: across successive run_dakota calls on one Study, the first run's
\* command line is '<bin> -i dak.in -o dak.out -write_restart Restart0.rst'
\* with no -read_restart option, and it appears on the '#   ' usage line of
\* the deck written to dak.in; every later run's command line contains
\* '-read_restart <restart file recorded by the previous run>' before
\* '-write_restart'.
C25_RestartChain ==
    (ret.op = "run_dakota" /\ ~ret.arg.dry_run)
    => /\ ret.status = "ok"
       /\ study.runs # <<>>
       /\ study.dak_in # None
       /\ LET n == Len(study.runs)
          IN /\ n = 1
                => /\ study.runs[1].cmd
                        = study.bin_path \o " -i dak.in -o dak.out"
                          \o " -write_restart Restart0.rst"
                   /\ HasSub(study.dak_in.text,
                             "\n# Usage:\n#   " \o study.runs[1].cmd \o "\n")
             /\ n > 1
                => HasSub(study.runs[n].cmd,
                          " -read_restart " \o study.runs[n - 1].rst
                          \o " -write_restart ")

-----------------------------------------------------------------------------
(* A Gradients / Hessians instance of the none type inside a Deck *)

\* d is an instance whose type is the none sentinel
IsNoneInstance(d) == d # None /\ d.derivative_type = None

\* d, or nothing set when d is an instance of the none type
Unset(d) == IF IsNoneInstance(d) THEN None ELSE d

\* C26: a Deck whose Gradients (Hessians) is an instance constructed with
\* the none type renders the same text, character for character, as the
\* same Deck with no Gradients (Hessians) set: the directive no_gradients /
\* no_hessians on its own tab-indented line after the descriptors line.
C26_NoneInstanceAsUnset ==
    /\ (ret.op = "_format_gradients" /\ IsNoneInstance(gradients))
       => /\ ret.status = "ok"
          /\ ret.text = FormatGradients(None).text
          /\ ret.text = "\n\tno_gradients"
    /\ (ret.op = "_format_hessians" /\ IsNoneInstance(hessians))
       => /\ ret.status = "ok"
          /\ ret.text = FormatHessians(None).text
          /\ ret.text = "\n\tno_hessians"
    /\ (/\ ret.op = "_format_responses"
        /\ IsNoneInstance(gradients) \/ IsNoneInstance(hessians))
       => /\ ret.status = "ok"
          /\ ret.text = FormatResponses(method, functions, Unset(gradients),
                                        Unset(hessians)).text


\* C27: no text is produced in which the method requires gradients while
\* the responses block declares no_gradients (or requires Hessians while it
\* declares no_hessians): whenever the method block or the deck is
\* serialized without failure, the gradients (Hessians) directive of the
\* same Deck is not the none directive, also when the Gradients / Hessians
\* instance is of the none type.
C27_DerivativeGating ==
    (ret.op \in {"_format_method", "get_deck"} /\ ret.status = "ok")
    => /\ RequiresGradients(method.cls)
          => LET fg == FormatGradients(gradients)
             IN fg.status = "ok" => ~HasSub(fg.text, "no_gradients")
       /\ RequiresHessians(method.cls)
          => LET fh == FormatHessians(hessians)
             IN fh.status = "ok" => ~HasSub(fh.text, "no_hessians")

-----------------------------------------------------------------------------
(* The invariant of a UniformUncertainVariable *)

\* C28: in every reachable state of a UniformUncertainVariable, the state
\* right after construction included, lower < upper holds and the value is
\* the midpoint 0.5 * (lower + upper).
C28_UniformInvariant ==
    /\ uuv.lower.twice < uuv.upper.twice
    /\ uuv.element # None
    /\ IsMidpoint(uuv)

-----------------------------------------------------------------------------
(* The optional parameters of the optimizers in the method block *)

\* the optional numeric parameters of the constructor of cls
OptionalParams(cls) ==
    {"max_iterations", "max_function_evaluations", "convergence_tolerance"}
    \cup
    CASE cls = "NcsuDirectOptimize" ->
           {"solution_target", "min_boxsize_limit", "volume_boxsize_limit"}
      [] cls = "OptppCgOptimize" -> {"max_step", "gradient_tolerance"}
      [] cls = "OptppPdsOptimize" -> {"search_scheme_size"}
      [] cls \in OptppNewtonClasses ->
           {"max_step", "gradient_tolerance", "centering_parameter",
            "steplength_to_boundary"}
      [] cls = "ColinyCobylaOptimize" ->
           {"initial_delta", "variable_tolerance", "solution_target"}
      [] OTHER -> {}

\* line is one of the lines of t
HasLine(t, line) == HasSub(t \o "\n", line \o "\n")

\* C29: every optional method parameter that holds an accepted value appears
\* as a line '<name> = <value>' of to_string(), a legal zero included, and a
\* parameter left at None produces no line: an unset max_iterations,
\* max_function_evaluations or convergence_tolerance is not printed as None.
C29_OptionalParameters ==
    (/\ ret.op = "to_string"
     /\ method # NoObject
     /\ method.cls \notin SamplingClasses)
    => \A p \in OptionalParams(method.cls) :
         /\ method[p] # None
            => HasLine(ret.text,
                       "\n\t\t\t" \o p \o " = " \o PyFormat(method[p]))
         /\ method[p] = None
            => ~HasSub(ret.text, "\n\t\t\t" \o p \o " = ")

-----------------------------------------------------------------------------
(* pandakota/driver/driver.py: Driver processes that write their log       *)
(* streams to the communal log file.  Each process runs _write_stream one  *)
(* system call at a time.  `f` is a buffered text file: f.write hands the  *)
(* text to the buffer, which passes on to the file at once none of it, its *)
(* head or all of it, depending on its size; what stays in the buffer is   *)
(* written when the `with` block closes the file.                          *)

NumDrivers == 2
MaxFlushes == 1

Procs == 1..NumDrivers

\* io.StringIO() holding the text logged in the given round
StringIO(round) == [type |-> "StringIO", round |-> round]

\* a Driver after __init__, with or without activate_collective_logging,
\* about to run _write_stream
DriverInit(activated) ==
    [pc |-> "ready", logstream |-> IF activated THEN StringIO(0) ELSE None,
     fbuf |-> "none", flushes |-> 0]

\* one write(2) on the file opened with 'a': the part is appended
Appended(file, p, part) ==
    Append(file, [proc |-> p, round |-> drivers[p].logstream.round,
                  part |-> part, locked |-> lock = p])

InitDrivers ==
    /\ NoDeck
    /\ method = NoObject
    /\ uuv = NoObject
    /\ sv = NoObject
    /\ study = NoObject
    /\ logfile = <<>>
    /\ lock = 0
    /\ drivers \in [Procs -> {DriverInit(a) : a \in BOOLEAN}]
    /\ ret = NoCall

\* a step of a Driver process touches no Deck, Variable, Method or Study
DriverFrame == UNCHANGED <<deckVars, method, uuv, sv, study, ret>>

\* _write_stream: `if self._logstream is None: return`
WriteStreamReturn(p) ==
    /\ drivers[p].pc = "ready"
    /\ drivers[p].logstream = None
    /\ drivers' = [drivers EXCEPT ![p].pc = "closed"]
    /\ UNCHANGED <<logfile, lock>>
    /\ DriverFrame

\* self._logstream.flush(); open(self._logfile, 'a')
WriteStreamOpen(p) ==
    /\ drivers[p].pc = "ready"
    /\ drivers[p].logstream # None
    /\ drivers' = [drivers EXCEPT ![p].pc = "opened"]
    /\ UNCHANGED <<logfile, lock>>
    /\ DriverFrame

\* fcntl.flock(f, fcntl.LOCK_EX): waits until no other process holds it
WriteStreamLock(p) ==
    /\ drivers[p].pc = "opened"
    /\ lock = 0
    /\ lock' = p
    /\ drivers' = [drivers EXCEPT ![p].pc = "locked"]
    /\ UNCHANGED logfile
    /\ DriverFrame

\* f.write(self._logstream.getvalue())
WriteStreamWrite(p) ==
    /\ drivers[p].pc = "locked"
    /\ \/ /\ logfile' = logfile
          /\ drivers' = [drivers EXCEPT ![p].pc = "written",
                                        ![p].fbuf = "whole"]
       \/ /\ logfile' = Appended(logfile, p, "head")
          /\ drivers' = [drivers EXCEPT ![p].pc = "written",
                                        ![p].fbuf = "tail"]
       \/ /\ logfile' = Appended(logfile, p, "whole")
          /\ drivers' = [drivers EXCEPT ![p].pc = "written",
                                        ![p].fbuf = "none"]
    /\ UNCHANGED lock
    /\ DriverFrame

\* fcntl.flock(f, fcntl.LOCK_UN)
WriteStreamUnlock(p) ==
    /\ drivers[p].pc = "written"
    /\ lock' = IF lock = p THEN 0 ELSE lock
    /\ drivers' = [drivers EXCEPT ![p].pc = "unlocked"]
    /\ UNCHANGED logfile
    /\ DriverFrame

\* the end of the `with` block closes f, which writes its buffer; then
\* self._logstream.close()
WriteStreamClose(p) ==
    /\ drivers[p].pc = "unlocked"
    /\ logfile' = IF drivers[p].fbuf = "none" THEN logfile
                  ELSE Appended(logfile, p, drivers[p].fbuf)
    /\ drivers' = [drivers EXCEPT ![p].pc = "closed", ![p].fbuf = "none"]
    /\ UNCHANGED lock
    /\ DriverFrame

\* _flush_stream after its _write_stream: a new stream, which the handler
\* fills until the next _write_stream
FlushStreamRenew(p) ==
    /\ drivers[p].pc = "closed"
    /\ drivers[p].logstream # None
    /\ drivers[p].flushes < MaxFlushes
    /\ drivers' = [drivers EXCEPT
                     ![p].pc = "ready",
                     ![p].logstream = StringIO(drivers[p].flushes + 1),
                     ![p].flushes = @ + 1]
    /\ UNCHANGED <<logfile, lock>>
    /\ DriverFrame

NextDrivers ==
    \E p \in Procs :
      \/ WriteStreamReturn(p)
      \/ WriteStreamOpen(p)
      \/ WriteStreamLock(p)
      \/ WriteStreamWrite(p)
      \/ WriteStreamUnlock(p)
      \/ WriteStreamClose(p)
      \/ FlushStreamRenew(p)

SpecDrivers == InitDrivers /\ [][NextDrivers]_vars

\* C30: when several drivers flush their log text to the communal log
\* file concurrently, every write to the file is made while its writer
\* holds the exclusive lock, and the parts of one driver's block are never
\* separated by a part of another driver's block.
C30_LockedWrites ==
    /\ \A i \in DOMAIN logfile : logfile[i].locked
    /\ \A i, j, k \in DOMAIN logfile :
         (/\ i < j /\ j < k
          /\ logfile[i].proc = logfile[k].proc
          /\ logfile[i].round = logfile[k].round)
         => logfile[j].proc = logfile[i].proc

====
